---- MODULE Spec2Model ----
(***************************************************************************)
(* A model of electoral_search: the file-backed result cache (cache.py),   *)
(* the per-document page pipeline (ocr.py process_pdf) and the sequential  *)
(* and parallel orchestrators (cli.py, parallel.py), the extraction and    *)
(* matching functions (text_processing.py) and the exporter (export.py).   *)
(*                                                                         *)
(* Six specifications share the variables:                                 *)
(*   SpecCache  one ResultCache used call by call (get, set, clear, ...),  *)
(*              with the clock and damage to entry files as environment;   *)
(*   SpecRun    one run of the search command over a list of documents,    *)
(*              sequential or parallel, with or without the cache;         *)
(*   SpecIntr   such a run with a user interrupt (KeyboardInterrupt in the *)
(*              coordinating process) and the exit of the command;         *)
(*   SpecRerun  the command invoked repeatedly on one directory and one    *)
(*              cache directory, each time with its own options;           *)
(*   SpecRace   several workers calling get and set on one cache key, at   *)
(*              the granularity of the file operations the calls make;     *)
(*   SpecText   one call of an extraction or matching function, of the     *)
(*              matching loop of a page or of export_to_csv, on arguments  *)
(*              from bounded sets.                                         *)
(***************************************************************************)
EXTENDS Integers, Sequences, FiniteSets, Bags, TLC

VARIABLES
    docs,         \* the documents: a sequence of [kind, pages]; a document's name is its index
    store,        \* the cache directory: cache key -> entry file [content, mtime]
    now,          \* the wall clock, in ticks
    ops,          \* number of cache calls made so far (SpecCache)
    last,         \* the most recent cache call: its arguments, the entry it found, what it returned
    latest,       \* history: cache key -> arguments of the latest completed set on that key
    damaged,      \* history: the keys whose entry file the environment damaged
    healed,       \* history: the keys whose unusable entry a get has found
    mode,         \* "sequential", "parallel" (cli.py) or "pool" (parallel.py)
    use_cache,    \* --cache / --no-cache
    box_level,    \* --box-level
    num_workers,  \* the size of the worker pool
    wpc,          \* per document: "queued", "running", "done" (future complete), "collected"
    fut,          \* per document: the outcome of its worker (a returned list or an exception)
    all_results,  \* the aggregated result list
    stats,        \* the run-level ProcessingStats
    order,        \* history: the documents in the order the coordinator received them
    trace,        \* history: per document, the pipeline steps process_pdf invoked for it
    intr,         \* whether KeyboardInterrupt was raised in the coordinator, and (history)
                  \* the documents that had been started by then
    exit_code,    \* <<>> while the command runs, <<n>> once it has exited with code n
    args,         \* SpecText: the function called and its arguments
    out,          \* SpecText: what the call returned
    file,         \* SpecRace: the entry file of the one contended key
    procs         \* SpecRace: per worker, the call it makes and where it stands

cacheVars == <<store, now, ops, last, latest, damaged, healed>>
runVars == <<mode, use_cache, box_level, num_workers, wpc, fut, all_results, stats, order, trace,
             intr, exit_code>>
textVars == <<args, out>>
raceVars == <<file, procs>>
vars == <<docs, store, now, ops, last, latest, damaged, healed, mode, use_cache, box_level,
          num_workers, wpc, fut, all_results, stats, order, trace, intr, exit_code, args, out,
          file, procs>>

(***************************************************************************)
(* Bounds of the model.                                                    *)
(***************************************************************************)
\* the configured time-to-live, in clock ticks (ttl_days in the code)
TTL == 1
\* the number of cache calls of one behaviour of SpecCache
MaxOps == 3
\* the clock runs far enough for an entry to outlive its TTL
MaxTime == TTL + 1

(***************************************************************************)
(* Strings are sequences of characters, so that sorting and joining the    *)
(* target names is computed as Python computes it.                         *)
(***************************************************************************)
Ord(c) ==
    CASE c = "\t" -> 9 [] c = "\n" -> 10 [] c = " " -> 32 [] c = ":" -> 58
      [] c = "a" -> 97 [] c = "b" -> 98 [] c = "|" -> 124
      [] c = "D" -> 2404 [] c = "H" -> 2435 [] c = "N" -> 2472 [] c = "P" -> 2474
      [] c = "S" -> 2488 [] c = "V" -> 2509

RECURSIVE StrLess(_, _)
\* s < t for Python str: lexicographic by code point, a proper prefix first
StrLess(s, t) ==
    IF t = <<>> THEN FALSE
    ELSE IF s = <<>> THEN TRUE
    ELSE IF Ord(Head(s)) # Ord(Head(t)) THEN Ord(Head(s)) < Ord(Head(t))
    ELSE StrLess(Tail(s), Tail(t))

RECURSIVE Insert(_, _)
Insert(x, l) ==
    IF l = <<>> THEN <<x>>
    ELSE IF StrLess(Head(l), x) THEN <<Head(l)>> \o Insert(x, Tail(l))
    ELSE <<x>> \o l

\* variant: the names are hashed in the order given
sorted_as_given(l) == l

RECURSIVE sorted(_)
\* sorted(search_names)
sorted(l) == IF l = <<>> THEN <<>> ELSE Insert(Head(l), sorted(Tail(l)))

RECURSIVE join(_, _)
\* sep.join(l)
join(sep, l) ==
    IF l = <<>> THEN <<>>
    ELSE IF Len(l) = 1 THEN Head(l)
    ELSE Head(l) \o sep \o join(sep, Tail(l))

\* hashlib.sha256(x).hexdigest(): taken to be collision-free
sha256(x) == <<"sha256", x>>

(***************************************************************************)
(* Documents.  kind says what opening, validating and rasterizing the      *)
(* document does; pages says what recognizing each page does.  The bytes   *)
(* of a document are what determines both.                                 *)
(***************************************************************************)
Doc(kind, pages) == [kind |-> kind, pages |-> pages]

DocIds == 1..Len(docs)

\* open(file_path, "rb") succeeds
Readable(d) == docs[d].kind # "unreadable"

Bytes(d) == docs[d]

\* SearchResult; rec identifies the extracted record (name, father)
SearchResult(f, p, r) == [file |-> f, page |-> p, rec |-> r]

\* SearchResult of box-level mode: the keys bbox and confidence are always
\* present, with <<>> for the value None and <<x>> for a value
SearchResultBox(f, p, r, bbox, conf) ==
    [file |-> f, page |-> p, rec |-> r, bbox |-> bbox, confidence |-> conf]

(***************************************************************************)
(* cache.py                                                                *)
(***************************************************************************)
CACHE_VERSION == "1.0"

Ret(kind, val) == [kind |-> kind, val |-> val]
Miss == Ret("miss", <<>>)
Hit(R) == Ret("hit", R)
Raised == Ret("raise", <<>>)
Returned == Ret("ok", <<>>)

\* variant: the hash is taken of the path instead of the bytes
_compute_file_hash_of_path(d) == sha256(<<"path", d>>)

\* _compute_file_hash: defined only for a readable document (open raises otherwise)
_compute_file_hash(d) == sha256(Bytes(d))

\* _get_cache_key, the f-string key as a record of its three parts
_get_cache_key(d, search_names, threshold) ==
    [file_hash |-> _compute_file_hash(d),
     names_hash |-> sha256(join(<<"|">>, sorted(search_names))),
     threshold |-> threshold]

\* The JSON text of an entry, as a sequence of tokens: a header carrying the
\* version, one token per result, a closing token.  The other metadata
\* (timestamp, pdf_path, pdf_name, threshold, num_names) is never read back.
HdrTok(version) == [t |-> "hdr", version |-> version]
ItemTok(r) == [t |-> "item", r |-> r]
EndTok == [t |-> "end"]
NulTok == [t |-> "nul"]

\* json.dump(cache_data, f)
json_dump(results) ==
    <<HdrTok(CACHE_VERSION)>> \o [i \in 1..Len(results) |-> ItemTok(results[i])] \o <<EndTok>>

\* json.load succeeds on exactly the texts that are one complete object
Parses(content) ==
    /\ Len(content) >= 2
    /\ content[1].t = "hdr"
    /\ content[Len(content)].t = "end"
    /\ \A i \in 2..(Len(content) - 1) : content[i].t = "item"

\* json.load(f): the version and the results of a text that parses
json_load(content) ==
    [version |-> content[1].version,
     results |-> [i \in 1..(Len(content) - 2) |-> content[i + 1].r]]

Entry(content, mtime) == [content |-> content, mtime |-> mtime]

Unlink(st, k) == [x \in (DOMAIN st) \ {k} |-> st[x]]

\* variant: an entry expires as soon as its age reaches the TTL
Expired_at_ttl(entry, at) == at - entry.mtime >= TTL

\* datetime.now() - cache_mtime > self.ttl
Expired(entry, at) == at - entry.mtime > TTL

\* variant: an entry that cannot be read or parsed is left in place
get_keeps_unusable(st, at, d, search_names, threshold, rfail) ==
    IF ~Readable(d) THEN [ret |-> Raised, store |-> st]
    ELSE
    LET cache_key == _get_cache_key(d, search_names, threshold) IN
    IF cache_key \notin DOMAIN st THEN [ret |-> Miss, store |-> st]
    ELSE IF Expired(st[cache_key], at) THEN [ret |-> Miss, store |-> Unlink(st, cache_key)]
    ELSE IF rfail \/ ~Parses(st[cache_key].content)
        THEN [ret |-> Miss, store |-> st]
    ELSE IF json_load(st[cache_key].content).version # CACHE_VERSION
        THEN [ret |-> Miss, store |-> Unlink(st, cache_key)]
    ELSE [ret |-> Hit(json_load(st[cache_key].content).results), store |-> st]

\* ResultCache.get.  rfail: open(cache_path) raises.  Returns what the call
\* returns and the cache directory it leaves.  The key is computed before the
\* try block, so an unreadable document makes the call raise.
get(st, at, d, search_names, threshold, rfail) ==
    IF ~Readable(d) THEN [ret |-> Raised, store |-> st]
    ELSE
    LET cache_key == _get_cache_key(d, search_names, threshold) IN
    IF cache_key \notin DOMAIN st THEN [ret |-> Miss, store |-> st]
    ELSE IF Expired(st[cache_key], at) THEN [ret |-> Miss, store |-> Unlink(st, cache_key)]
    ELSE IF rfail \/ ~Parses(st[cache_key].content)
        THEN [ret |-> Miss, store |-> Unlink(st, cache_key)]
    ELSE IF json_load(st[cache_key].content).version # CACHE_VERSION
        THEN [ret |-> Miss, store |-> Unlink(st, cache_key)]
    ELSE [ret |-> Hit(json_load(st[cache_key].content).results), store |-> st]

WriteFaults == {"none", "open", "dump"}

\* variant: set leaves an entry that already exists as it is
set_keeps_existing(st, at, d, search_names, threshold, results, wfail) ==
    IF ~Readable(d) THEN [ret |-> Raised, store |-> st]
    ELSE
    LET cache_key == _get_cache_key(d, search_names, threshold) IN
    IF wfail = "open" \/ cache_key \in DOMAIN st THEN [ret |-> Returned, store |-> st]
    ELSE IF wfail = "dump"
        THEN [ret |-> Returned,
              store |-> (cache_key :> Entry(<<HdrTok(CACHE_VERSION)>>, at)) @@ st]
    ELSE [ret |-> Returned,
          store |-> (cache_key :> Entry(json_dump(results), at)) @@ st]

\* ResultCache.set.  wfail: "open" when open(cache_path, "w") raises, "dump" when
\* json.dump raises after the file was truncated and the header written; both
\* are logged and swallowed.  The key is computed before the try block.
set(st, at, d, search_names, threshold, results, wfail) ==
    IF ~Readable(d) THEN [ret |-> Raised, store |-> st]
    ELSE
    LET cache_key == _get_cache_key(d, search_names, threshold) IN
    IF wfail = "open" THEN [ret |-> Returned, store |-> st]
    ELSE IF wfail = "dump"
        THEN [ret |-> Returned,
              store |-> (cache_key :> Entry(<<HdrTok(CACHE_VERSION)>>, at)) @@ st]
    ELSE [ret |-> Returned,
          store |-> (cache_key :> Entry(json_dump(results), at)) @@ st]

\* variant: the files are counted and left in place
clear_counts_only(st) == [count |-> Cardinality(DOMAIN st), store |-> st]

\* ResultCache.clear: the number of files removed and the directory left
clear(st) == [count |-> Cardinality(DOMAIN st), store |-> [x \in {} |-> Entry(<<>>, 0)]]

\* ResultCache.clear_expired
clear_expired(st, at) ==
    LET old == {k \in DOMAIN st : Expired(st[k], at)} IN
    [count |-> Cardinality(old), store |-> [x \in (DOMAIN st) \ old |-> st[x]]]

\* ResultCache.get_stats()["total_entries"]
total_entries(st) == Cardinality(DOMAIN st)

(***************************************************************************)
(* SpecCache: one ResultCache, called by one caller.                       *)
(***************************************************************************)
NameA == <<"a">>
NameB == <<"b">>
\* one name that holds the character the names are joined with
NameAB == <<"a", "|", "b">>
\* the search parameters the calls are made with
Params ==
    {[names |-> <<NameA, NameB>>, thr |-> 80], [names |-> <<NameB, NameA>>, thr |-> 80],
     [names |-> <<NameA, NameB>>, thr |-> 90], [names |-> <<NameAB>>, thr |-> 80]}
\* the result lists handed to set: the empty list and one whose order shows
ResultLists == {<<>>, <<SearchResult(1, 2, 1), SearchResult(1, 1, 1)>>}
\* calls on the unreadable document, and calls that meet an I/O fault, are
\* made with these arguments only (what they do does not depend on them)
FaultParams == [names |-> <<NameA, NameB>>, thr |-> 80]
FaultDocs == {1, 3}

\* two byte-identical documents under different names, and one that cannot be
\* opened
CacheDocs ==
    <<Doc("ok", <<"hit">>), Doc("ok", <<"hit">>), Doc("unreadable", <<>>)>>

NoEntry == [exists |-> FALSE, content |-> <<>>, mtime |-> 0]
Found(st, k) ==
    IF k \in DOMAIN st
    THEN [exists |-> TRUE, content |-> st[k].content, mtime |-> st[k].mtime]
    ELSE NoEntry

Call(op, d, names, thr, arg, fault, pre, ret, count) ==
    [op |-> op, d |-> d, names |-> names, thr |-> thr, arg |-> arg, fault |-> fault,
     pre |-> pre, ret |-> ret, count |-> count]
NoCall(op) == Call(op, 1, <<>>, 0, <<>>, "none", NoEntry, Returned, 0)

Pre(d, names, thr) ==
    IF Readable(d) THEN Found(store, _get_cache_key(d, names, thr)) ELSE NoEntry

\* an entry file that exists and cannot be used: unreadable, not one complete
\* JSON object, or of another version
Unusable(pre, rfail) ==
    /\ pre.exists
    /\ \/ rfail
       \/ ~Parses(pre.content)
       \/ pre.content[1].version # CACHE_VERSION

\* history: an entry of `latest` outlived the TTL
Stale(k) == k \in DOMAIN latest /\ now - latest[k].at > TTL

Forget(h, ks) == [x \in (DOMAIN h) \ ks |-> h[x]]

\* ProcessingStats()
ProcessingStats ==
    [files_processed |-> 0, files_failed |-> 0, pages_processed |-> 0, matches_found |-> 0,
     errors |-> <<>>]

\* no KeyboardInterrupt so far
NoInterrupt == [raised |-> FALSE, dispatched |-> {}]

runIdle ==
    /\ mode = "none"
    /\ use_cache = FALSE
    /\ box_level = FALSE
    /\ num_workers = 1
    /\ wpc = <<>>
    /\ fut = <<>>
    /\ all_results = <<>>
    /\ stats = ProcessingStats
    /\ order = <<>>
    /\ trace = <<>>
    /\ intr = NoInterrupt
    /\ exit_code = <<>>

\* no call of a text function under way
NoArgs == [fn |-> "none"]

textIdle ==
    /\ args = NoArgs
    /\ out = <<>>

raceIdle ==
    /\ file = [path |-> 0, inodes |-> <<>>, orig |-> {}]
    /\ procs = <<>>

cacheIdle ==
    /\ store = [x \in {} |-> Entry(<<>>, 0)]
    /\ now = 0
    /\ ops = 0
    /\ last = NoCall("init")
    /\ latest = [x \in {} |-> 0]
    /\ damaged = {}
    /\ healed = {}

InitCache ==
    /\ docs = CacheDocs
    /\ cacheIdle
    /\ runIdle
    /\ raceIdle
    /\ textIdle

\* cache.get(pdf_path, search_names, threshold)
CacheGet ==
    \E d \in DocIds, p \in Params, rfail \in BOOLEAN :
        LET r == get(store, now, d, p.names, p.thr, rfail)
            k == _get_cache_key(d, p.names, p.thr)
        IN  /\ ops < MaxOps
            /\ (rfail \/ ~Readable(d)) => (d \in FaultDocs /\ p = FaultParams)
            /\ rfail => (Readable(d) /\ k \in DOMAIN store)
            /\ ops' = ops + 1
            /\ store' = r.store
            /\ last' = Call("get", d, p.names, p.thr, <<>>, IF rfail THEN "read" ELSE "none",
                            Pre(d, p.names, p.thr), r.ret, 0)
            /\ latest' = IF Readable(d) /\ (Stale(k) \/ rfail) THEN Forget(latest, {k}) ELSE latest
            /\ healed' = IF Unusable(Pre(d, p.names, p.thr), rfail) THEN healed \cup {k} ELSE healed
            /\ UNCHANGED <<docs, now, damaged>>
            /\ UNCHANGED runVars
            /\ UNCHANGED raceVars
            /\ UNCHANGED textVars

\* cache.set(pdf_path, search_names, threshold, results)
CacheSet ==
    \E d \in DocIds, p \in Params, R \in ResultLists, wfail \in WriteFaults :
        LET r == set(store, now, d, p.names, p.thr, R, wfail)
            k == _get_cache_key(d, p.names, p.thr)
            n == IF k \in DOMAIN latest /\ ~Stale(k) THEN latest[k].n + 1 ELSE 1
        IN  /\ ops < MaxOps
            /\ (wfail # "none" \/ ~Readable(d)) => (d \in FaultDocs /\ p = FaultParams /\ R = <<>>)
            /\ ops' = ops + 1
            /\ store' = r.store
            /\ last' = Call("set", d, p.names, p.thr, R, wfail, Pre(d, p.names, p.thr), r.ret, 0)
            /\ latest' =
                  IF ~Readable(d) \/ wfail = "open" THEN latest
                  ELSE IF wfail = "dump" THEN Forget(latest, {k})
                  ELSE (k :> [d |-> d, names |-> p.names, thr |-> p.thr, R |-> R, at |-> now,
                              n |-> n]) @@ latest
            /\ UNCHANGED <<docs, now, damaged, healed>>
            /\ UNCHANGED runVars
            /\ UNCHANGED raceVars
            /\ UNCHANGED textVars

\* cache.clear()
CacheClear ==
    LET r == clear(store) IN
    /\ ops < MaxOps
    /\ ops' = ops + 1
    /\ store' = r.store
    /\ last' = [NoCall("clear") EXCEPT !.count = r.count]
    /\ latest' = Forget(latest, DOMAIN latest)
    /\ UNCHANGED <<docs, now, damaged, healed>>
    /\ UNCHANGED runVars
    /\ UNCHANGED raceVars
    /\ UNCHANGED textVars

\* cache.clear_expired()
CacheClearExpired ==
    LET r == clear_expired(store, now) IN
    /\ ops < MaxOps
    /\ ops' = ops + 1
    /\ store' = r.store
    /\ last' = [NoCall("clear_expired") EXCEPT !.count = r.count]
    /\ latest' = Forget(latest, {k \in DOMAIN latest : Stale(k)})
    /\ UNCHANGED <<docs, now, damaged, healed>>
    /\ UNCHANGED runVars
    /\ UNCHANGED raceVars
    /\ UNCHANGED textVars

\* environment: time passes
Tick ==
    /\ now < MaxTime
    /\ ops < MaxOps
    /\ now' = now + 1
    /\ last' = NoCall("tick")
    /\ UNCHANGED <<docs, store, ops, latest, damaged, healed>>
    /\ UNCHANGED runVars
    /\ UNCHANGED raceVars
    /\ UNCHANGED textVars

\* environment: the cache directory holds an entry file whose tail was lost
\* (a writer that died), or one written by a release with another CACHE_VERSION
Damage ==
    \E d \in FaultDocs, p \in Params, how \in {"truncated", "version"} :
        LET k == _get_cache_key(d, p.names, p.thr)
            text == json_dump(<<SearchResult(d, 1, 1)>>)
        IN  /\ ops < MaxOps
            /\ Readable(d)
            /\ damaged = {}
            /\ store' = (k :> Entry(IF how = "truncated" THEN SubSeq(text, 1, Len(text) - 1)
                                    ELSE <<HdrTok("0.9")>> \o Tail(text), now)) @@ store
            /\ damaged' = damaged \cup {k}
            /\ latest' = Forget(latest, {k})
            /\ last' = NoCall("damage")
            /\ UNCHANGED <<docs, now, ops, healed>>
            /\ UNCHANGED runVars
            /\ UNCHANGED raceVars
            /\ UNCHANGED textVars

NextCache ==
    \/ CacheGet
    \/ CacheSet
    \/ CacheClear
    \/ CacheClearExpired
    \/ Tick
    \/ Damage

SpecCache == InitCache /\ [][NextCache]_vars

(***************************************************************************)
(* text_processing.py.                                                     *)
(*                                                                         *)
(* The characters of a text: "a" and "b" are letters; " ", "\t" and "\n"   *)
(* are whitespace; ":" is the colon (ASCII or full-width); "N" is the word *)
(* for "name", "P" the word for "father's" and "S" the word for            *)
(* "husband's", so that the guardian labels are "P N" and "S N"; "H", "D"  *)
(* and "V" are the visarga, the danda and the virama.                      *)
(***************************************************************************)
Max(a, b) == IF a >= b THEN a ELSE b
Min(a, b) == IF a <= b THEN a ELSE b

IsSpace(c) == c \in {" ", "\t", "\n"}

RECURSIVE lstrip(_)
lstrip(s) == IF s # <<>> /\ IsSpace(Head(s)) THEN lstrip(Tail(s)) ELSE s

RECURSIVE rstrip(_)
rstrip(s) == IF s # <<>> /\ IsSpace(s[Len(s)]) THEN rstrip(SubSeq(s, 1, Len(s) - 1)) ELSE s

\* str.strip()
strip(s) == rstrip(lstrip(s))

\* the characters normalize_bn deletes: str.maketrans("", "", ...)
StripSet == {"H", "D", "V", " "}

NotStripped(c) == c \notin StripSet

\* variant: only the surrounding whitespace is removed
normalize_bn_strip(text) == strip(text)

\* normalize_bn(text)
normalize_bn(text) == IF text = <<>> THEN <<>> ELSE strip(SelectSeq(text, NotStripped))

\* the index of the first character of s at or after i that satisfies the
\* test, Len(s) + 1 when there is none
FirstSpace(s, i) ==
    IF \E j \in i..Len(s) : IsSpace(s[j])
    THEN CHOOSE j \in i..Len(s) : IsSpace(s[j]) /\ \A k \in i..(j - 1) : ~IsSpace(s[k])
    ELSE Len(s) + 1

SkipSpace(s, i) ==
    IF \E j \in i..Len(s) : ~IsSpace(s[j])
    THEN CHOOSE j \in i..Len(s) : ~IsSpace(s[j]) /\ \A k \in i..(j - 1) : IsSpace(s[k])
    ELSE Len(s) + 1

\* str.split(): the whitespace-delimited tokens
RECURSIVE split(_)
split(s) ==
    LET t == lstrip(s) IN
    IF t = <<>> THEN <<>>
    ELSE <<SubSeq(t, 1, FirstSpace(t, 1) - 1)>> \o split(SubSeq(t, FirstSpace(t, 1), Len(t)))

\* the length of a longest common subsequence
RECURSIVE lcs(_, _)
lcs(s, t) ==
    IF s = <<>> \/ t = <<>> THEN 0
    ELSE IF Head(s) = Head(t) THEN 1 + lcs(Tail(s), Tail(t))
    ELSE Max(lcs(Tail(s), t), lcs(s, Tail(t)))

\* rapidfuzz: the insertions and deletions that turn s into t
indel_distance(s, t) == Len(s) + Len(t) - 2 * lcs(s, t)

\* A similarity score 100 * (lensum - dist) / lensum is kept as the fraction
\* <<lensum - dist, lensum>>, so that comparisons are exact.
Score(dist, lensum) == IF lensum = 0 THEN <<1, 1>> ELSE <<lensum - dist, lensum>>

\* score >= t
AtLeast(score, t) == 100 * score[1] >= t * score[2]

\* x > y
Better(x, y) == x[1] * y[2] > y[1] * x[2]

MaxScore(x, y) == IF Better(y, x) THEN y ELSE x

\* the least score at which a word is attributed to a token
MIN_WORD_SCORE == 70

\* --min-confidence, at its default
MIN_CONFIDENCE == 60

\* fuzz.ratio(s1, s2)
ratio(s1, s2) == Score(indel_distance(s1, s2), Len(s1) + Len(s2))

Range(l) == {l[i] : i \in DOMAIN l}

RECURSIVE SetToSeq(_)
SetToSeq(S) == IF S = {} THEN <<>> ELSE LET x == CHOOSE x \in S : TRUE IN <<x>> \o SetToSeq(S \ {x})

\* " ".join(sorted(tokens))
joined(tokens) == join(<<" ">>, sorted(SetToSeq(tokens)))

\* fuzz.token_set_ratio(s1, s2)
token_set_ratio(s1, s2) ==
    LET tokens_a == Range(split(s1))
        tokens_b == Range(split(s2))
        intersect == tokens_a \cap tokens_b
        diff_ab == tokens_a \ tokens_b
        diff_ba == tokens_b \ tokens_a
        sect_len == Len(joined(intersect))
        ab_len == Len(joined(diff_ab))
        ba_len == Len(joined(diff_ba))
        sep == IF sect_len > 0 THEN 1 ELSE 0
        sect_ab_len == sect_len + sep + ab_len
        sect_ba_len == sect_len + sep + ba_len
        result == Score(indel_distance(joined(diff_ab), joined(diff_ba)),
                        sect_ab_len + sect_ba_len)
        sect_ab_ratio == Score(sep + ab_len, sect_len + sect_ab_len)
        sect_ba_ratio == Score(sep + ba_len, sect_len + sect_ba_len)
    IN
    IF s1 = <<>> \/ s2 = <<>> THEN <<0, 1>>
    ELSE IF tokens_a = {} \/ tokens_b = {} THEN <<0, 1>>
    ELSE IF intersect # {} /\ (diff_ab = {} \/ diff_ba = {}) THEN <<1, 1>>
    ELSE IF sect_len = 0 THEN result
    ELSE MaxScore(result, MaxScore(sect_ab_ratio, sect_ba_ratio))

\* variant: no test for an empty argument
fuzzy_match_unguarded(a, b, threshold) ==
    AtLeast(token_set_ratio(normalize_bn(a), normalize_bn(b)), threshold)

\* fuzzy_match(a, b, threshold)
fuzzy_match(a, b, threshold) ==
    IF a = <<>> \/ b = <<>> THEN FALSE
    ELSE AtLeast(token_set_ratio(normalize_bn(a), normalize_bn(b)), threshold)

\* fuzzy_match(a, b, threshold) when fuzz.token_set_ratio raises: the except
\* clause logs a warning and returns False
fuzzy_match_raising(a, b, threshold) ==
    IF a = <<>> \/ b = <<>> THEN FALSE
    ELSE FALSE

\* an OCRWord; box stands for its bounding box and confidence
OCRWord(text, box) == [text |-> text, box |-> box]

NoBest == [score |-> <<0, 1>>, word |-> <<>>]

\* the inner loop of _find_text_words: for word in ocr_words: if score >
\* best_score and score >= 70; best.word is <<>> for None, <<w>> for a word
RECURSIVE best_match(_, _, _)
best_match(token, ocr_words, best) ==
    IF ocr_words = <<>> THEN best
    ELSE LET word == Head(ocr_words)
             score == ratio(normalize_bn(token), normalize_bn(word.text))
         IN best_match(token, Tail(ocr_words),
                       IF Better(score, best.score) /\ AtLeast(score, MIN_WORD_SCORE)
                       THEN [score |-> score, word |-> <<word>>]
                       ELSE best)

\* if best_match and best_match not in matching_words: matching_words.append(best_match)
claim(matching_words, best) ==
    IF best.word # <<>> /\ best.word[1] \notin Range(matching_words)
    THEN matching_words \o best.word
    ELSE matching_words

\* the outer loop of _find_text_words: for token in search_tokens
RECURSIVE find_words(_, _, _)
find_words(search_tokens, ocr_words, matching_words) ==
    IF search_tokens = <<>> THEN matching_words
    ELSE find_words(Tail(search_tokens), ocr_words,
                    claim(matching_words, best_match(Head(search_tokens), ocr_words, NoBest)))

\* _find_text_words(search_text, ocr_words)
_find_text_words(search_text, ocr_words) ==
    IF search_text = <<>> \/ ocr_words = <<>> THEN <<>>
    ELSE find_words(split(search_text), ocr_words, <<>>)

\* the longest field a pattern captures: .{1,200}
MAX_FIELD == 200

NoMatch == [found |-> FALSE, group |-> <<>>]
Match(group) == [found |-> TRUE, group |-> group]

\* the index of the last character of the line that holds index i
LineEnd(text, i) ==
    IF \E j \in i..Len(text) : text[j] = "\n"
    THEN (CHOOSE j \in i..Len(text) : text[j] = "\n" /\ \A k \in i..(j - 1) : text[k] # "\n") - 1
    ELSE Len(text)

\* \s*[:]\s*(.{1,200}?)(?:\n|$) matched at index i, the end of a label: the
\* whitespace before the group is taken greedily and given back one character
\* at a time, the group is the shortest run of non-newline characters that ends
\* a line
field_tail(text, i) ==
    LET colon == SkipSpace(text, i)
        lo == colon + 1
        hi == SkipSpace(text, colon + 1)
        starts == {s \in lo..hi :
                      /\ s <= Len(text)
                      /\ text[s] # "\n"
                      /\ LineEnd(text, s) - s + 1 <= MAX_FIELD}
        start == CHOOSE s \in starts : \A u \in starts : u <= s
    IN
    IF colon > Len(text) \/ text[colon] # ":" THEN NoMatch
    ELSE IF starts = {} THEN NoMatch
    ELSE Match(SubSeq(text, start, LineEnd(text, start)))

\* NAME_RE.search(block): the label is the word "name" wherever it stands
NAME_RE(block) ==
    LET hits == {i \in 1..Len(block) : block[i] = "N" /\ field_tail(block, i + 1).found}
        at == CHOOSE i \in hits : \A j \in hits : i <= j
    IN IF hits = {} THEN NoMatch ELSE field_tail(block, at + 1)

\* FATHER_RE.search(block): the label is "father's name" or "husband's name"
FATHER_RE(block) ==
    LET hits == {i \in 1..(Len(block) - 2) :
                    /\ block[i] \in {"P", "S"}
                    /\ block[i + 1] = " "
                    /\ block[i + 2] = "N"
                    /\ field_tail(block, i + 3).found}
        at == CHOOSE i \in hits : \A j \in hits : i <= j
    IN IF hits = {} THEN NoMatch ELSE field_tail(block, at + 3)

\* text.split("\n\n")
RECURSIVE split_blocks(_)
split_blocks(text) ==
    LET breaks == {i \in 1..(Len(text) - 1) : text[i] = "\n" /\ text[i + 1] = "\n"}
        at == CHOOSE i \in breaks : \A j \in breaks : i <= j
    IN IF breaks = {} THEN <<text>>
       ELSE <<SubSeq(text, 1, at - 1)>> \o split_blocks(SubSeq(text, at + 2, Len(text)))

VoterInfo(name, father) == [name |-> name, father |-> father]

\* the loop over the blocks of extract_voter_blocks
RECURSIVE extract_blocks(_)
extract_blocks(blocks) ==
    IF blocks = <<>> THEN <<>>
    ELSE LET name_match == NAME_RE(Head(blocks))
             father_match == FATHER_RE(Head(blocks))
         IN (IF name_match.found /\ father_match.found
             THEN <<VoterInfo(strip(name_match.group), strip(father_match.group))>>
             ELSE <<>>) \o extract_blocks(Tail(blocks))

\* extract_voter_blocks(text)
extract_voter_blocks(text) == extract_blocks(split_blocks(text))

\* BoundingBox of a run of words: boxes are positions, a box spans lo..hi
BoundingBox(lo, hi) == [lo |-> lo, hi |-> hi]

\* _get_combined_bbox(ocr_words), for a non-empty list
_get_combined_bbox(ocr_words) ==
    LET boxes == {ocr_words[i].box : i \in DOMAIN ocr_words} IN
    BoundingBox(CHOOSE b \in boxes : \A c \in boxes : b <= c,
                CHOOSE b \in boxes : \A c \in boxes : b >= c)

\* the confidence tesseract reports for a word: at least min_confidence
confidence(word) == MIN_CONFIDENCE + word.box

RECURSIVE sum_confidence(_)
sum_confidence(words) ==
    IF words = <<>> THEN 0 ELSE confidence(Head(words)) + sum_confidence(Tail(words))

\* sum(w["confidence"] for w in all_words) / len(all_words), as a fraction
avg_conf(all_words) == <<sum_confidence(all_words), Len(all_words)>>

\* a VoterInfo of box-level extraction; an optional field that is not set
\* reads as None (voter.get): <<>> for None, <<x>> for a value
VoterInfoBox(name, father, name_bbox, father_bbox, conf) ==
    [name |-> name, father |-> father, name_bbox |-> name_bbox, father_bbox |-> father_bbox,
     confidence |-> conf]

\* the body of the loop of extract_voter_blocks_with_boxes for one record
voter_with_boxes(voter_text, ocr_words, name_words, father_words) ==
    VoterInfoBox(voter_text.name, voter_text.father,
                 IF name_words # <<>> THEN <<_get_combined_bbox(name_words)>> ELSE <<>>,
                 IF father_words # <<>> THEN <<_get_combined_bbox(father_words)>> ELSE <<>>,
                 IF name_words \o father_words # <<>>
                 THEN <<avg_conf(name_words \o father_words)>> ELSE <<>>)

\* for voter_text in text_voters: ...
RECURSIVE voters_with_boxes(_, _)
voters_with_boxes(text_voters, ocr_words) ==
    IF text_voters = <<>> THEN <<>>
    ELSE <<voter_with_boxes(Head(text_voters), ocr_words,
                            _find_text_words(Head(text_voters).name, ocr_words),
                            _find_text_words(Head(text_voters).father, ocr_words))>>
         \o voters_with_boxes(Tail(text_voters), ocr_words)

\* extract_voter_blocks_with_boxes(text, ocr_words)
extract_voter_blocks_with_boxes(text, ocr_words) ==
    voters_with_boxes(extract_voter_blocks(text), ocr_words)

\* variant: the words are joined by line breaks, two between words
reconstruct_lines(ocr_words) ==
    join(<<"\n", "\n">>, [i \in DOMAIN ocr_words |-> ocr_words[i].text])

\* " ".join(word["text"] for word in ocr_words)
reconstruct(ocr_words) == join(<<" ">>, [i \in DOMAIN ocr_words |-> ocr_words[i].text])

\* extract_ocr_data(image, min_confidence) for an image that reads as text:
\* one OCRWord per word of the page, in reading order
ocr_words_of(texts) == [i \in DOMAIN texts |-> OCRWord(texts[i], i)]

extract_ocr_data(text) == ocr_words_of(split(text))

(***************************************************************************)
(* ocr.py: the page pipeline of one document.                              *)
(*                                                                         *)
(* What recognizing a page does:                                           *)
(*   "hit"      the page holds one record that matches a target name;      *)
(*   "blank"    the page is recognized and holds no matching record;       *)
(*   "timeout"  the engine exceeds the per-page time limit (pytesseract    *)
(*              raises RuntimeError("Tesseract process timeout"));         *)
(*   "glitch"   the engine exits with an error (pytesseract.TesseractError,*)
(*              a RuntimeError whose message does not say timeout);        *)
(*   "oddity"   the page raises an exception that is not a RuntimeError    *)
(*              (extract_ocr_data wraps it in a RuntimeError);             *)
(*   "noengine" the engine binary is missing (TesseractNotFoundError).     *)
(***************************************************************************)
\* the configured page ceiling (environment variable MAX_PDF_PAGES)
MAX_PDF_PAGES == 2

Err(d, what) == [doc |-> d, what |-> what]

\* variant: a failed document is counted as processed as well
Failed_counts_both(st, d, what) ==
    [st EXCEPT !.files_failed = @ + 1, !.files_processed = @ + 1,
               !.errors = Append(@, Err(d, what))]

\* stats.files_failed += 1; stats.errors.append(...)
Failed(st, d, what) ==
    [st EXCEPT !.files_failed = @ + 1, !.errors = Append(@, Err(d, what))]

\* variant: no ceiling
Images_unlimited(d) == docs[d].pages

\* images = images[:MAX_PDF_PAGES]
Images(d) ==
    IF Len(docs[d].pages) > MAX_PDF_PAGES THEN SubSeq(docs[d].pages, 1, MAX_PDF_PAGES)
    ELSE docs[d].pages

\* what recognition returns for a page, as text: one record whose name is the
\* first target name, or a line that holds no field
HitText == <<"N", " ", ":", " ", "a", "\n", "P", " ", "N", " ", ":", " ", "b">>
BlankText == <<"b">>
\* a page with a guardian line only, printed without spaces around the colon
FusedText == <<"P", " ", "N", ":", "a">>

\* the text recognition returns for a page
PageText(o) == IF o = "hit" THEN HitText ELSE IF o = "fused" THEN FusedText ELSE BlankText

\* text mode: voters = extract_voter_blocks(text)
Voters(o) == extract_voter_blocks(PageText(o))

\* box-level mode: ocr_words = extract_ocr_data(image, min_confidence); text =
\* " ".join(...); voters = extract_voter_blocks_with_boxes(text, ocr_words)
voters_of_words(ocr_words) == extract_voter_blocks_with_boxes(reconstruct(ocr_words), ocr_words)

page_voters_with_boxes(text) == voters_of_words(extract_ocr_data(text))

VotersBox(o) == page_voters_with_boxes(PageText(o))

\* variant: the result is put in front of the list
emit_front(acc, result) ==
    [results |-> <<result>> \o acc.results, matches_found |-> acc.matches_found + 1]

\* results.append(result); stats.matches_found += 1
emit(acc, result) ==
    [results |-> Append(acc.results, result), matches_found |-> acc.matches_found + 1]

\* variant: a record is reported for the first target name it matches only
RECURSIVE match_voter_once(_, _, _, _, _, _)
match_voter_once(d, page_no, voter, search_names, threshold, acc) ==
    IF search_names = <<>> THEN acc
    ELSE IF fuzzy_match(voter.name, Head(search_names), threshold)
        THEN emit(acc, SearchResult(d, page_no, voter))
    ELSE match_voter_once(d, page_no, voter, Tail(search_names), threshold, acc)

\* for query in search_names: if fuzzy_match(voter["name"], query, threshold): ...
RECURSIVE match_voter(_, _, _, _, _, _)
match_voter(d, page_no, voter, search_names, threshold, acc) ==
    IF search_names = <<>> THEN acc
    ELSE match_voter(d, page_no, voter, Tail(search_names), threshold,
                     IF fuzzy_match(voter.name, Head(search_names), threshold)
                     THEN emit(acc, SearchResult(d, page_no, voter))
                     ELSE acc)

\* for voter in voters: ...
RECURSIVE match_page(_, _, _, _, _, _)
match_page(d, page_no, voters, search_names, threshold, acc) ==
    IF voters = <<>> THEN acc
    ELSE match_page(d, page_no, Tail(voters), search_names, threshold,
                    match_voter(d, page_no, Head(voters), search_names, threshold, acc))

\* box-level mode: for query in search_names: if fuzzy_match(...): result =
\* SearchResult(..., bbox=voter.get("name_bbox"), confidence=avg_conf)
RECURSIVE match_voter_box(_, _, _, _, _, _)
match_voter_box(d, page_no, voter, search_names, threshold, acc) ==
    IF search_names = <<>> THEN acc
    ELSE match_voter_box(d, page_no, voter, Tail(search_names), threshold,
                         IF fuzzy_match(voter.name, Head(search_names), threshold)
                         THEN emit(acc, SearchResultBox(d, page_no,
                                                        VoterInfo(voter.name, voter.father),
                                                        voter.name_bbox, voter.confidence))
                         ELSE acc)

\* box-level mode: for voter in voters: ...
RECURSIVE match_page_box(_, _, _, _, _, _)
match_page_box(d, page_no, voters, search_names, threshold, acc) ==
    IF voters = <<>> THEN acc
    ELSE match_page_box(d, page_no, Tail(voters), search_names, threshold,
                        match_voter_box(d, page_no, Head(voters), search_names, threshold, acc))

\* the target names and the threshold of the run
RunNames == <<NameA, NameB>>
FUZZY_THRESHOLD_DEFAULT == 82

\* a step of the pipeline invoked for a document
Step(step, page) == [step |-> step, page |-> page]

\* variant: a missing engine is handled like any other exception of a page
page_outcome_lenient(o, box) ==
    CASE o \in {"timeout", "noengine"} -> "skip"
      [] o = "glitch" -> "abort"
      [] o = "oddity" -> IF box THEN "abort" ELSE "skip"
      [] OTHER -> "ok"

\* what the except clauses of the page loop make of the recognition of a page:
\* "ok" (no exception), "skip" (continue) or "abort" (RuntimeError raised)
page_outcome(o, box) ==
    CASE o = "noengine" -> "abort"
      [] o = "timeout" -> "skip"
      [] o = "glitch" -> "abort"
      [] o = "oddity" -> IF box THEN "abort" ELSE "skip"
      [] OTHER -> "ok"

\* the loop over the pages of process_pdf, from page page_no on
RECURSIVE page_loop(_, _, _, _, _, _)
page_loop(d, box, images, page_no, results, st) ==
    IF page_no > Len(images)
    THEN [exc |-> "none", results |-> results, stats |-> st, calls |-> <<>>]
    ELSE
    LET o == images[page_no]
        acc == IF box
               THEN match_page_box(d, page_no, VotersBox(o), RunNames, FUZZY_THRESHOLD_DEFAULT,
                                   [results |-> results, matches_found |-> st.matches_found])
               ELSE match_page(d, page_no, Voters(o), RunNames, FUZZY_THRESHOLD_DEFAULT,
                               [results |-> results, matches_found |-> st.matches_found])
        rest == CASE page_outcome(o, box) = "ok" ->
                        page_loop(d, box, images, page_no + 1, acc.results,
                                  [st EXCEPT !.pages_processed = @ + 1,
                                             !.matches_found = acc.matches_found])
                  [] page_outcome(o, box) = "skip" ->
                        page_loop(d, box, images, page_no + 1, results, st)
                  [] page_outcome(o, box) = "abort" ->
                        [exc |-> "RuntimeError", results |-> <<>>, stats |-> st, calls |-> <<>>]
    IN [rest EXCEPT !.calls = <<Step("ocr", page_no)>> \o @]

\* validate_pdf_file(pdf_path): the exception it raises, "none" when it returns.
\* A "flaky" document is one the cache can read while pdf_path.stat() or open()
\* in the validation meets an I/O error.
validate_pdf_file(d) ==
    CASE docs[d].kind = "invalid" -> "ValueError"
      [] docs[d].kind \in {"unreadable", "flaky"} -> "OSError"
      [] OTHER -> "none"

\* variant: every failure of the rasterizer is a conversion failure
convert_from_path_generic(d) ==
    IF docs[d].kind \in {"pagecount", "syntax", "convert"} THEN "RuntimeError" ELSE "none"

\* convert_from_path(...) under the except clauses around it: the exception
\* raised, "none" when the images are returned
convert_from_path(d) ==
    CASE docs[d].kind \in {"pagecount", "syntax"} -> "ValueError"
      [] docs[d].kind = "convert" -> "RuntimeError"
      [] OTHER -> "none"

\* the end of process_pdf once the page loop is left: stats.files_processed += 1
\* and return, or the except block for ValueError and RuntimeError
after_pages(d, head, loop) ==
    IF loop.exc = "none"
    THEN [loop EXCEPT !.stats.files_processed = @ + 1, !.calls = head \o @]
    ELSE [loop EXCEPT !.stats = Failed(loop.stats, d, loop.exc), !.calls = head \o @]

\* process_pdf(pdf_path, search_names, threshold, stats, box_level): the
\* exception it raises ("none" when it returns), the list it returns, the stats
\* object as it leaves it and the steps it invoked.  An exception that is neither
\* ValueError nor RuntimeError (the document cannot be opened) is logged, counted
\* and swallowed: the call returns the list built so far.
process_pdf(d, box, st) ==
    LET v == validate_pdf_file(d)
        c == convert_from_path(d)
        head == <<Step("validate", 0), Step("rasterize", 0)>>
    IN
    IF v = "OSError"
    THEN [exc |-> "none", results |-> <<>>, stats |-> Failed(st, d, "Unexpected error"),
          calls |-> <<Step("validate", 0)>>]
    ELSE IF v # "none"
    THEN [exc |-> v, results |-> <<>>, stats |-> Failed(st, d, v),
          calls |-> <<Step("validate", 0)>>]
    ELSE IF c # "none"
    THEN [exc |-> c, results |-> <<>>, stats |-> Failed(st, d, c), calls |-> head]
    ELSE after_pages(d, head, page_loop(d, box, Images(d), 1, <<>>, st))

(***************************************************************************)
(* parallel.py and cli.py: the orchestrators.                              *)
(***************************************************************************)
None == <<>>
Some(n) == <<n>>

\* variant: a given count is capped, not floored
get_optimal_workers_unfloored(max_workers, cpu_count) ==
    IF max_workers # None THEN Min(max_workers[1], cpu_count)
    ELSE Max(1, cpu_count - 1)

\* get_optimal_workers(max_workers), on a machine with cpu_count processors
get_optimal_workers(max_workers, cpu_count) ==
    IF max_workers # None THEN Max(1, Min(max_workers[1], cpu_count))
    ELSE Max(1, cpu_count - 1)

\* _execute_processing: which orchestrator the search command runs
_execute_processing(parallel) ==
    IF parallel /\ Len(docs) > 1 THEN "parallel" ELSE "sequential"

\* the outcome of a worker
Pending == [kind |-> "pending", val |-> <<>>, exc |-> "", to_cache |-> FALSE]
Result(R, to_cache) == [kind |-> "result", val |-> R, exc |-> "", to_cache |-> to_cache]
Exception(e) == [kind |-> "exc", val |-> <<>>, exc |-> e, to_cache |-> FALSE]

\* variant: the received list replaces the aggregate
extend_replaces(all, results) == results

\* all_results.extend(results)
extend(all, results) == all \o results

\* variant: the document is processed whatever the lookup returned
worker_outcome_no_lookup(st, cache, g, p) ==
    IF cache /\ g.ret.kind = "raise"
    THEN [fut |-> Exception("OSError"), store |-> st, calls |-> <<>>]
    ELSE [fut |-> IF p.exc = "none" THEN Result(p.results, cache) ELSE Exception(p.exc),
          store |-> IF cache THEN g.store ELSE st, calls |-> p.calls]

\* what the worker function makes of the cache lookup g and of the call p of
\* process_pdf
worker_outcome(st, cache, g, p) ==
    IF cache /\ g.ret.kind = "raise"
    THEN [fut |-> Exception("OSError"), store |-> st, calls |-> <<>>]
    ELSE IF cache /\ g.ret.kind = "hit"
    THEN [fut |-> Result(g.ret.val, FALSE), store |-> g.store, calls |-> <<>>]
    ELSE [fut |-> IF p.exc = "none" THEN Result(p.results, cache) ELSE Exception(p.exc),
          store |-> IF cache THEN g.store ELSE st, calls |-> p.calls]

\* _process_pdf_worker up to the return of process_pdf: the cache lookup, then
\* process_pdf on a fresh worker-local ProcessingStats.  In the library
\* orchestrator the processing function is process_pdf on the worker's copy of
\* the stats, without a cache.
_process_pdf_worker(st, d, cache, box) ==
    worker_outcome(st, cache, get(st, now, d, RunNames, FUZZY_THRESHOLD_DEFAULT, FALSE),
                   process_pdf(d, box, ProcessingStats))

Running == {d \in DocIds : wpc[d] = "running"}

\* the pages of a document one page longer than the ceiling
LongPages == [i \in 1..(MAX_PDF_PAGES + 1) |-> IF i = 1 THEN "blank" ELSE "hit"]

\* the documents the run is made of
RunDocs ==
    {Doc("invalid", <<>>), Doc("syntax", <<>>), Doc("convert", <<>>), Doc("unreadable", <<>>),
     Doc("ok", <<"timeout", "hit">>), Doc("ok", <<"oddity", "hit">>),
     Doc("ok", <<"hit", "glitch">>), Doc("ok", <<"noengine", "hit">>),
     Doc("ok", LongPages), Doc("ok", <<"hit", "hit">>), Doc("pagecount", <<>>)}

NumDocs == 2
MaxCpus == 2

WorkerOptions == {None} \cup {Some(n) : n \in 0..(MaxCpus + 1)}

InitRun ==
    /\ \E n \in 1..NumDocs : docs \in [1..n -> RunDocs]
    /\ \E library \in BOOLEAN, parallel \in BOOLEAN, cache \in BOOLEAN, box \in BOOLEAN,
          workers \in WorkerOptions, cpu_count \in 1..MaxCpus :
        /\ library => (parallel /\ ~cache /\ ~box)
        /\ ~parallel => (workers = None /\ cpu_count = 1)
        /\ mode = IF library THEN "pool" ELSE _execute_processing(parallel)
        /\ use_cache = cache
        /\ box_level = box
        /\ num_workers = IF parallel THEN get_optimal_workers(workers, cpu_count) ELSE 1
    /\ wpc = [d \in DocIds |-> "queued"]
    /\ fut = [d \in DocIds |-> Pending]
    /\ all_results = <<>>
    /\ stats = ProcessingStats
    /\ order = <<>>
    /\ trace = [d \in DocIds |-> <<>>]
    /\ intr = NoInterrupt
    /\ exit_code = <<>>
    /\ cacheIdle
    /\ raceIdle
    /\ textIdle

\* a pool worker takes the next submitted document and runs the worker function
\* up to the return of process_pdf
WorkerBegin(d) ==
    /\ mode \in {"parallel", "pool"}
    /\ exit_code = <<>>
    /\ wpc[d] = "queued"
    /\ \A e \in 1..(d - 1) : wpc[e] # "queued"
    /\ Cardinality(Running) < num_workers
    /\ \E w \in {_process_pdf_worker(store, d, mode = "parallel" /\ use_cache, box_level)} :
        /\ fut' = [fut EXCEPT ![d] = w.fut]
        /\ store' = w.store
        /\ trace' = [trace EXCEPT ![d] = w.calls]
    /\ wpc' = [wpc EXCEPT ![d] = "running"]
    /\ UNCHANGED <<docs, now, ops, last, latest, damaged, healed, mode, use_cache, box_level,
                   num_workers, all_results, stats, order, intr, exit_code>>
    /\ UNCHANGED raceVars
    /\ UNCHANGED textVars

\* the worker stores what process_pdf returned and its future completes
WorkerEnd(d) ==
    /\ mode \in {"parallel", "pool"}
    /\ exit_code = <<>>
    /\ wpc[d] = "running"
    /\ store' = IF fut[d].to_cache
                THEN set(store, now, d, RunNames, FUZZY_THRESHOLD_DEFAULT, fut[d].val, "none").store
                ELSE store
    /\ wpc' = [wpc EXCEPT ![d] = "done"]
    /\ UNCHANGED <<docs, now, ops, last, latest, damaged, healed, mode, use_cache, box_level,
                   num_workers, fut, all_results, stats, order, trace, intr, exit_code>>
    /\ UNCHANGED raceVars
    /\ UNCHANGED textVars

\* _process_parallel: the coordinator receives a completed future
ParCollect(d) ==
    /\ mode = "parallel"
    /\ ~intr.raised
    /\ exit_code = <<>>
    /\ wpc[d] = "done"
    /\ IF fut[d].kind = "result"
       THEN /\ all_results' = extend(all_results, fut[d].val)
            /\ stats' = [stats EXCEPT !.files_processed = @ + 1,
                                      !.matches_found = @ + Len(fut[d].val)]
       ELSE /\ all_results' = all_results
            /\ stats' = Failed(stats, d, fut[d].exc)
    /\ wpc' = [wpc EXCEPT ![d] = "collected"]
    /\ order' = Append(order, d)
    /\ UNCHANGED <<docs, mode, use_cache, box_level, num_workers, fut, trace, intr, exit_code>>
    /\ UNCHANGED cacheVars
    /\ UNCHANGED raceVars
    /\ UNCHANGED textVars

\* process_pdfs_parallel: the coordinator receives a completed future
PoolCollect(d) ==
    /\ mode = "pool"
    /\ ~intr.raised
    /\ exit_code = <<>>
    /\ wpc[d] = "done"
    /\ IF fut[d].kind = "result"
       THEN /\ all_results' = extend(all_results, fut[d].val)
            /\ stats' = stats
       ELSE /\ all_results' = all_results
            /\ stats' = Failed(stats, d, fut[d].exc)
    /\ wpc' = [wpc EXCEPT ![d] = "collected"]
    /\ order' = Append(order, d)
    /\ UNCHANGED <<docs, mode, use_cache, box_level, num_workers, fut, trace, intr, exit_code>>
    /\ UNCHANGED cacheVars
    /\ UNCHANGED raceVars
    /\ UNCHANGED textVars

\* _process_sequential: one iteration of the loop over the documents
SeqStep(d) ==
    /\ mode = "sequential"
    /\ ~intr.raised
    /\ exit_code = <<>>
    /\ wpc[d] = "queued"
    /\ \A e \in 1..(d - 1) : wpc[e] = "collected"
    /\ \E g \in {get(store, now, d, RunNames, FUZZY_THRESHOLD_DEFAULT, FALSE)},
          p \in {process_pdf(d, box_level, stats)} :
       IF use_cache /\ g.ret.kind = "raise"
       THEN /\ fut' = [fut EXCEPT ![d] = Exception("OSError")]
            /\ UNCHANGED <<all_results, stats, store, trace>>
       ELSE IF use_cache /\ g.ret.kind = "hit"
       THEN /\ fut' = [fut EXCEPT ![d] = Result(g.ret.val, FALSE)]
            /\ stats' = [stats EXCEPT !.files_processed = @ + 1]
            /\ all_results' = extend(all_results, g.ret.val)
            /\ store' = g.store
            /\ trace' = trace
       ELSE /\ fut' = [fut EXCEPT ![d] = IF p.exc = "none" THEN Result(p.results, use_cache)
                                         ELSE Exception(p.exc)]
            /\ stats' = p.stats
            /\ trace' = [trace EXCEPT ![d] = p.calls]
            /\ all_results' = IF p.exc = "none" THEN extend(all_results, p.results)
                              ELSE all_results
            /\ store' = IF ~use_cache THEN store
                        ELSE IF p.exc # "none" THEN g.store
                        ELSE set(g.store, now, d, RunNames, FUZZY_THRESHOLD_DEFAULT, p.results,
                                 "none").store
    /\ wpc' = [wpc EXCEPT ![d] = "collected"]
    /\ order' = Append(order, d)
    /\ UNCHANGED <<docs, now, ops, last, latest, damaged, healed, mode, use_cache, box_level,
                   num_workers, intr, exit_code>>
    /\ UNCHANGED raceVars
    /\ UNCHANGED textVars

NextRun ==
    \/ \E d \in DocIds : WorkerBegin(d)
    \/ \E d \in DocIds : WorkerEnd(d)
    \/ \E d \in DocIds : ParCollect(d)
    \/ \E d \in DocIds : PoolCollect(d)
    \/ \E d \in DocIds : SeqStep(d)

SpecRun == InitRun /\ [][NextRun]_vars

\* the run is over: every document has been received
RunDone == mode # "none" /\ \A d \in DocIds : wpc[d] = "collected"

(***************************************************************************)
(* SpecIntr: a run of the search command, a user interrupt and the exit.   *)
(***************************************************************************)
\* the documents of an interrupted run
IntrDocs == {Doc("ok", <<"hit", "hit">>), Doc("invalid", <<>>)}

\* the exit code of an interrupted command: raise typer.Exit(130)
EXIT_INTERRUPTED == 130

InitIntr ==
    /\ \E n \in 1..(NumDocs + 1) : docs \in [1..n -> IntrDocs]
    /\ \E parallel \in BOOLEAN, cache \in BOOLEAN, workers \in {Some(n) : n \in 1..MaxCpus} :
        /\ mode = _execute_processing(parallel)
        /\ use_cache = cache
        /\ num_workers = IF mode = "parallel" THEN get_optimal_workers(workers, MaxCpus) ELSE 1
    /\ box_level = FALSE
    /\ wpc = [d \in DocIds |-> "queued"]
    /\ fut = [d \in DocIds |-> Pending]
    /\ all_results = <<>>
    /\ stats = ProcessingStats
    /\ order = <<>>
    /\ trace = [d \in DocIds |-> <<>>]
    /\ intr = NoInterrupt
    /\ exit_code = <<>>
    /\ cacheIdle
    /\ raceIdle
    /\ textIdle

\* KeyboardInterrupt is raised in the coordinating process.  No except clause
\* of the orchestrators catches it: the sequential loop is left at once; the
\* parallel loop is left too, and the with block of the executor then waits
\* in shutdown(wait=True) for the pool to run what was submitted.
Interrupt ==
    /\ mode \in {"sequential", "parallel"}
    /\ ~intr.raised
    /\ exit_code = <<>>
    /\ intr' = [raised |-> TRUE, dispatched |-> {d \in DocIds : wpc[d] # "queued"}]
    /\ UNCHANGED <<docs, mode, use_cache, box_level, num_workers, wpc, fut, all_results, stats,
                   order, trace, exit_code>>
    /\ UNCHANGED cacheVars
    /\ UNCHANGED raceVars
    /\ UNCHANGED textVars

\* the search command ends: it returns after the run (exit code 0), or its
\* except KeyboardInterrupt clause raises typer.Exit(130) once the interrupt
\* has left the orchestrator
Exit ==
    /\ mode \in {"sequential", "parallel"}
    /\ exit_code = <<>>
    /\ IF intr.raised
       THEN /\ mode = "parallel" => \A d \in DocIds : wpc[d] \notin {"queued", "running"}
            /\ exit_code' = <<EXIT_INTERRUPTED>>
       ELSE /\ RunDone
            /\ exit_code' = <<0>>
    /\ UNCHANGED <<docs, mode, use_cache, box_level, num_workers, wpc, fut, all_results, stats,
                   order, trace, intr>>
    /\ UNCHANGED cacheVars
    /\ UNCHANGED raceVars
    /\ UNCHANGED textVars

NextIntr ==
    \/ \E d \in DocIds : WorkerBegin(d)
    \/ \E d \in DocIds : WorkerEnd(d)
    \/ \E d \in DocIds : ParCollect(d)
    \/ \E d \in DocIds : SeqStep(d)
    \/ Interrupt
    \/ Exit

SpecIntr == InitIntr /\ [][NextIntr]_vars

(***************************************************************************)
(* SpecRerun: the search command invoked again and again on one directory  *)
(* with one cache directory, each time with its own options.               *)
(***************************************************************************)
\* the documents of the directory: no two of them hold the same bytes
RerunDocs ==
    {Doc("ok", <<"hit", "blank">>), Doc("ok", <<"fused">>), Doc("invalid", <<>>),
     Doc("flaky", <<>>)}

InitRerun ==
    /\ \E n \in 1..NumDocs : docs \in {f \in [1..n -> RerunDocs] :
                                          \A i, j \in 1..n : f[i] = f[j] => i = j}
    /\ \E parallel \in BOOLEAN, box \in BOOLEAN :
        /\ mode = _execute_processing(parallel)
        /\ box_level = box
        /\ num_workers = IF parallel THEN get_optimal_workers(None, MaxCpus) ELSE 1
    /\ use_cache = TRUE
    /\ wpc = [d \in DocIds |-> "queued"]
    /\ fut = [d \in DocIds |-> Pending]
    /\ all_results = <<>>
    /\ stats = ProcessingStats
    /\ order = <<>>
    /\ trace = [d \in DocIds |-> <<>>]
    /\ intr = NoInterrupt
    /\ exit_code = <<>>
    /\ cacheIdle
    /\ raceIdle
    /\ textIdle

\* search is invoked again after the command returned: new options, a fresh
\* ProcessingStats and result list, the same documents and, with the cache
\* on, the entries the earlier invocations left in the cache directory
Rerun ==
    /\ exit_code = <<0>>
    /\ \E parallel \in BOOLEAN, box \in BOOLEAN :
        /\ mode' = _execute_processing(parallel)
        /\ box_level' = box
        /\ num_workers' = IF parallel THEN get_optimal_workers(None, MaxCpus) ELSE 1
    /\ wpc' = [d \in DocIds |-> "queued"]
    /\ fut' = [d \in DocIds |-> Pending]
    /\ all_results' = <<>>
    /\ stats' = ProcessingStats
    /\ order' = <<>>
    /\ trace' = [d \in DocIds |-> <<>>]
    /\ exit_code' = <<>>
    /\ UNCHANGED <<docs, use_cache, intr>>
    /\ UNCHANGED cacheVars
    /\ UNCHANGED raceVars
    /\ UNCHANGED textVars

NextRerun ==
    \/ \E d \in DocIds : WorkerBegin(d)
    \/ \E d \in DocIds : WorkerEnd(d)
    \/ \E d \in DocIds : ParCollect(d)
    \/ \E d \in DocIds : SeqStep(d)
    \/ Exit
    \/ Rerun

SpecRerun == InitRerun /\ [][NextRerun]_vars

(***************************************************************************)
(* SpecRace: workers calling get and set on one cache key at the same      *)
(* time, step by step as the calls operate on the entry file.              *)
(*                                                                         *)
(* file.path is the inode the entry's path names (0: no such file),        *)
(* file.inodes the content of every inode created, file.orig the result    *)
(* list of the entry present at the start.  A writer keeps the inode it    *)
(* opened and its own offset; open(path, "w") truncates; a write beyond    *)
(* the end of the file fills the gap with NUL.  json.dump reaches the file *)
(* in pieces when the text outgrows the stream buffer: each token is one   *)
(* write.  The reader takes the whole text in one read.  Two workers write *)
(* different texts under one key when their documents are byte-identical   *)
(* and a page timed out in only one of them, or when the documents' names  *)
(* differ.  No entry is old enough to expire.                              *)
(***************************************************************************)
NumProcs == 3

A1 == SearchResult(1, 1, 1)
A2 == SearchResult(1, 2, 1)
B1 == SearchResult(2, 2, 1)

\* the programs of the workers: a lookup, or a store of one of two lists
Progs == <<[op |-> "get", arg |-> <<>>], [op |-> "set", arg |-> <<A1, A2>>],
           [op |-> "set", arg |-> <<B1>>]>>

Proc(prog) == [op |-> prog.op, arg |-> prog.arg, pc |-> "start", fd |-> 0, off |-> 0,
               ret |-> Returned]

InitRace ==
    /\ docs = CacheDocs
    /\ cacheIdle
    /\ runIdle
    /\ textIdle
    /\ \E present \in BOOLEAN :
        file = IF present THEN [path |-> 1, inodes |-> <<json_dump(<<>>)>>, orig |-> {<<>>}]
               ELSE [path |-> 0, inodes |-> <<>>, orig |-> {}]
    /\ \E choice \in [1..NumProcs -> DOMAIN Progs] :
        /\ \A p \in 1..(NumProcs - 1) : choice[p] <= choice[p + 1]
        /\ procs = [p \in 1..NumProcs |-> Proc(Progs[choice[p]])]

\* the content of a file after writing token tok at position pos
WriteAt(content, pos, tok) ==
    [i \in 1..Max(Len(content), pos) |->
        IF i = pos THEN tok ELSE IF i <= Len(content) THEN content[i] ELSE NulTok]

\* get: if not cache_path.exists(): return None
GetExists(p) ==
    /\ procs[p].op = "get"
    /\ procs[p].pc = "start"
    /\ procs' = [procs EXCEPT ![p] = IF file.path = 0 THEN [@ EXCEPT !.pc = "done", !.ret = Miss]
                                     ELSE [@ EXCEPT !.pc = "stat"]]
    /\ UNCHANGED <<docs, file>>
    /\ UNCHANGED cacheVars
    /\ UNCHANGED runVars
    /\ UNCHANGED textVars

\* get: cache_path.stat(); it raises when the file has been removed meanwhile
GetStat(p) ==
    /\ procs[p].op = "get"
    /\ procs[p].pc = "stat"
    /\ procs' = [procs EXCEPT ![p].pc = IF file.path = 0 THEN "unlink" ELSE "load"]
    /\ UNCHANGED <<docs, file>>
    /\ UNCHANGED cacheVars
    /\ UNCHANGED runVars
    /\ UNCHANGED textVars

\* get: open, json.load and the version check
GetLoad(p) ==
    /\ procs[p].op = "get"
    /\ procs[p].pc = "load"
    /\ procs' = [procs EXCEPT ![p] =
            IF file.path = 0 THEN [@ EXCEPT !.pc = "unlink"]
            ELSE IF ~Parses(file.inodes[file.path]) THEN [@ EXCEPT !.pc = "unlink"]
            ELSE IF json_load(file.inodes[file.path]).version # CACHE_VERSION
                THEN [@ EXCEPT !.pc = "unlink"]
            ELSE [@ EXCEPT !.pc = "done",
                           !.ret = Hit(json_load(file.inodes[file.path]).results)]]
    /\ UNCHANGED <<docs, file>>
    /\ UNCHANGED cacheVars
    /\ UNCHANGED runVars
    /\ UNCHANGED textVars

\* get: cache_path.unlink() of the except branch, then return None
GetUnlink(p) ==
    /\ procs[p].op = "get"
    /\ procs[p].pc = "unlink"
    /\ file' = [file EXCEPT !.path = 0]
    /\ procs' = [procs EXCEPT ![p] = [@ EXCEPT !.pc = "done", !.ret = Miss]]
    /\ UNCHANGED docs
    /\ UNCHANGED cacheVars
    /\ UNCHANGED runVars
    /\ UNCHANGED textVars

\* set: open(cache_path, "w") creates the file or truncates it
SetOpen(p) ==
    /\ procs[p].op = "set"
    /\ procs[p].pc = "start"
    /\ IF file.path = 0
       THEN /\ file' = [file EXCEPT !.path = Len(file.inodes) + 1,
                                    !.inodes = Append(@, <<>>)]
            /\ procs' = [procs EXCEPT ![p] = [@ EXCEPT !.pc = "write",
                                                       !.fd = Len(file.inodes) + 1]]
       ELSE /\ file' = [file EXCEPT !.inodes[file.path] = <<>>]
            /\ procs' = [procs EXCEPT ![p] = [@ EXCEPT !.pc = "write", !.fd = file.path]]
    /\ UNCHANGED docs
    /\ UNCHANGED cacheVars
    /\ UNCHANGED runVars
    /\ UNCHANGED textVars

\* set: json.dump writes the next piece of the text at the writer's offset; the
\* file is closed after the last one
SetWrite(p) ==
    /\ procs[p].op = "set"
    /\ procs[p].pc = "write"
    /\ LET text == json_dump(procs[p].arg)
           pos == procs[p].off + 1
       IN
        /\ file' = [file EXCEPT !.inodes[procs[p].fd] = WriteAt(@, pos, text[pos])]
        /\ procs' = [procs EXCEPT ![p] = [@ EXCEPT !.off = pos,
                                           !.pc = IF pos = Len(text) THEN "done" ELSE "write"]]
    /\ UNCHANGED docs
    /\ UNCHANGED cacheVars
    /\ UNCHANGED runVars
    /\ UNCHANGED textVars

NextRace ==
    \/ \E p \in DOMAIN procs : GetExists(p)
    \/ \E p \in DOMAIN procs : GetStat(p)
    \/ \E p \in DOMAIN procs : GetLoad(p)
    \/ \E p \in DOMAIN procs : GetUnlink(p)
    \/ \E p \in DOMAIN procs : SetOpen(p)
    \/ \E p \in DOMAIN procs : SetWrite(p)

SpecRace == InitRace /\ [][NextRace]_vars

(***************************************************************************)
(* SpecText: one call of a function of text_processing.py or of the        *)
(* matching loop of a page, on arguments drawn from bounded sets.          *)
(***************************************************************************)
\* export.py: export_to_csv.  A row is the sequence of its cells in the order
\* of the fieldnames; a cell is a value or the empty string <<>>.
CsvHeader(has_bbox, has_confidence) ==
    <<"file", "page", "name", "father">>
    \o (IF has_bbox THEN <<"bbox_left", "bbox_top", "bbox_width", "bbox_height">> ELSE <<>>)
    \o (IF has_confidence THEN <<"confidence">> ELSE <<>>)

\* f"{result['confidence']:.2f}": the number in hundredths, rounded; None has
\* no such format and raises TypeError
format_2f(conf) ==
    IF conf = <<>> THEN [exc |-> "TypeError", cell |-> <<>>]
    ELSE [exc |-> "none", cell |-> <<"2f", (200 * conf[1][1] + conf[1][2]) \div (2 * conf[1][2])>>]

\* the row export_to_csv builds for one result, and the exception building it
\* raises
CsvRow(result, has_bbox, has_confidence) ==
    LET bbox == IF ~has_bbox THEN <<>>
                ELSE IF "bbox" \in DOMAIN result /\ result.bbox # <<>>
                THEN <<result.bbox[1].lo, result.bbox[1].lo, result.bbox[1].hi - result.bbox[1].lo,
                       result.bbox[1].hi - result.bbox[1].lo>>
                ELSE <<<<>>, <<>>, <<>>, <<>>>>
        conf == IF has_confidence /\ "confidence" \in DOMAIN result
                THEN format_2f(result.confidence)
                ELSE [exc |-> "none", cell |-> <<>>]
    IN [exc |-> conf.exc,
        row |-> <<result.file, result.page, result.rec.name, result.rec.father>> \o bbox
                \o (IF has_confidence THEN <<conf.cell>> ELSE <<>>)]

\* for result in results: ... writer.writerow(row)
RECURSIVE CsvRows(_, _, _)
CsvRows(results, has_bbox, has_confidence) ==
    IF results = <<>> THEN [exc |-> "none", rows |-> <<>>]
    ELSE LET first == CsvRow(Head(results), has_bbox, has_confidence)
             rest == CsvRows(Tail(results), has_bbox, has_confidence)
         IN IF first.exc # "none" THEN [exc |-> first.exc, rows |-> <<>>]
            ELSE [exc |-> rest.exc, rows |-> <<first.row>> \o rest.rows]

\* export_to_csv(results, output_path): the exception it raises ("none" when
\* it returns) and the rows written, the header first.  Every exception is
\* re-raised as OSError.
export_to_csv(results) ==
    LET has_bbox == \E i \in DOMAIN results : "bbox" \in DOMAIN results[i]
        has_confidence == \E i \in DOMAIN results : "confidence" \in DOMAIN results[i]
        body == CsvRows(results, has_bbox, has_confidence)
    IN IF results = <<>> THEN [exc |-> "none", rows |-> <<CsvHeader(FALSE, FALSE)>>]
       ELSE [exc |-> IF body.exc = "none" THEN "none" ELSE "OSError",
             rows |-> <<CsvHeader(has_bbox, has_confidence)>> \o body.rows]

MaxLines == 3
MaxTokens == 2
MaxVoters == 2

\* the sequences over S of length lo to hi
SeqsOf(S, lo, hi) == UNION {[1..n -> S] : n \in lo..hi}

\* a line of a block: a name field, a guardian field under either label, or a
\* line without a label; the field value may carry surrounding whitespace
LineKinds == {"name", "father", "husband", "other"}
LineValues == {<<"a">>, <<" ", "b", " ">>}
Lines == [kind : LineKinds, value : LineValues]

Label(kind) ==
    CASE kind = "name" -> <<"N", " ", ":">>
      [] kind = "father" -> <<"P", " ", "N", " ", ":">>
      [] kind = "husband" -> <<"S", " ", "N", ":">>
      [] kind = "other" -> <<>>

RenderLine(line) == Label(line.kind) \o line.value

RECURSIVE RenderLines(_)
RenderLines(lines) ==
    IF lines = <<>> THEN <<>> ELSE <<RenderLine(Head(lines))>> \o RenderLines(Tail(lines))

\* the text of a block made of the given lines
Block(lines) == join(<<"\n">>, RenderLines(lines))

\* the strings compared by the matcher: tokens joined by a space or by a tab
Tokens == {<<"a">>, <<"b">>}
Delims == {<<" ">>, <<"\t">>}
Thresholds == {0, 50, FUZZY_THRESHOLD_DEFAULT, 100}

\* the thresholds the search command accepts: 0 to MAX_THRESHOLD
MAX_THRESHOLD == 100
AllThresholds == 0..MAX_THRESHOLD

\* the strings given to normalize_bn
MaxText == 3
NormChars == {"a", " ", "\t", "H", "V"}

\* the words recognized on a page and the fields looked up in them
MaxWords == 2
WordTexts == {<<"a">>, <<"b">>, <<"a", "b">>}
FieldTokens == {<<"a">>, <<"b">>}

\* the values of --workers: none, or a count
WorkerCounts == {None} \cup {Some(n) : n \in (-1)..(MaxCpus + 1)}

\* a page with a guardian line only
GuardianText == <<"P", " ", "N", " ", ":", " ", "a">>

\* the pages whose results are exported
ExportTexts == {HitText, FusedText, BlankText, GuardianText}

\* a name line and a guardian line: one record of a page
PairValues == {<<"a">>, <<"b">>}
Pair(name, father) ==
    <<"N", " ", ":", " ">> \o name \o <<"\n", "P", " ", "N", " ", ":", " ">> \o father

\* the results of a document in the order of its pages, page i of which reads
\* as texts[i]: the matching loops of process_pdf
RECURSIVE page_results(_, _, _, _)
page_results(texts, page_no, box, acc) ==
    IF page_no > Len(texts) THEN acc.results
    ELSE page_results(texts, page_no + 1, box,
                      IF box
                      THEN match_page_box(1, page_no, page_voters_with_boxes(texts[page_no]),
                                          RunNames, FUZZY_THRESHOLD_DEFAULT, acc)
                      ELSE match_page(1, page_no, extract_voter_blocks(texts[page_no]),
                                      RunNames, FUZZY_THRESHOLD_DEFAULT, acc))

\* the records and target names of a page
RecordNames == {<<"a">>, <<"a", " ", "b">>}
TargetNames == {<<"a">>, <<"b">>, <<"b", " ", "a">>}

InitText ==
    /\ docs = CacheDocs
    /\ cacheIdle
    /\ runIdle
    /\ raceIdle
    /\ out = <<>>
    /\ \/ \E lines \in SeqsOf(Lines, 1, MaxLines) :
            args = [fn |-> "extract_voter_blocks", lines |-> lines, text |-> Block(lines)]
       \/ \E ta \in SeqsOf(Tokens, 1, MaxTokens), tb \in SeqsOf(Tokens, 1, MaxTokens),
             da \in Delims, db \in Delims, t \in Thresholds :
            args = [fn |-> "fuzzy_match", tokens |-> ta, delim |-> da, a |-> join(da, ta),
                    b |-> join(db, tb), threshold |-> t, raises |-> FALSE]
       \/ \E ta \in SeqsOf(Tokens, 0, 1), tb \in SeqsOf(Tokens, 0, 1), t \in AllThresholds,
             raises \in BOOLEAN :
            /\ (ta = <<>> \/ tb = <<>> \/ raises)
            /\ args = [fn |-> "fuzzy_match", tokens |-> ta, delim |-> <<" ">>,
                       a |-> join(<<" ">>, ta), b |-> join(<<" ">>, tb), threshold |-> t,
                       raises |-> raises]
       \/ \E text \in SeqsOf(NormChars, 0, MaxText) :
            args = [fn |-> "normalize_bn", text |-> text]
       \/ \E tokens \in SeqsOf(FieldTokens, 0, 2), texts \in SeqsOf(WordTexts, 0, MaxWords) :
            args = [fn |-> "_find_text_words", search_text |-> join(<<" ">>, tokens),
                    ocr_words |-> [i \in DOMAIN texts |-> OCRWord(texts[i], i)]]
       \/ \E names \in SeqsOf(PairValues, 0, MaxVoters), fathers \in SeqsOf(PairValues, 0, MaxVoters) :
            /\ Len(names) = Len(fathers)
            /\ args = [fn |-> "extract_voter_blocks_with_boxes", pairs |-> Len(names),
                       page |-> join(<<"\n", "\n">>,
                                     [i \in DOMAIN names |-> Pair(names[i], fathers[i])])]
       \/ \E texts \in SeqsOf(ExportTexts, 0, MAX_PDF_PAGES), box \in BOOLEAN :
            args = [fn |-> "export_to_csv", box |-> box,
                    results |-> page_results(texts, 1, box,
                                             [results |-> <<>>, matches_found |-> 0])]
       \/ \E max_workers \in WorkerCounts, cpu_count \in 1..MaxCpus :
            args = [fn |-> "get_optimal_workers", max_workers |-> max_workers,
                    cpu_count |-> cpu_count]
       \/ \E names \in SeqsOf(RecordNames, 0, MaxVoters),
             search_names \in SeqsOf(TargetNames, 1, 2), t \in {50, FUZZY_THRESHOLD_DEFAULT} :
            args = [fn |-> "match_page",
                    voters |-> [i \in DOMAIN names |-> VoterInfo(names[i], <<"b">>)],
                    search_names |-> search_names, threshold |-> t]

\* extract_voter_blocks(text)
ExtractVoterBlocks ==
    /\ args.fn = "extract_voter_blocks"
    /\ out = <<>>
    /\ out' = <<extract_voter_blocks(args.text)>>
    /\ UNCHANGED <<docs, args>>
    /\ UNCHANGED cacheVars
    /\ UNCHANGED runVars
    /\ UNCHANGED raceVars

\* fuzzy_match(a, b, threshold)
FuzzyMatch ==
    /\ args.fn = "fuzzy_match"
    /\ out = <<>>
    /\ out' = <<IF args.raises THEN fuzzy_match_raising(args.a, args.b, args.threshold)
                 ELSE fuzzy_match(args.a, args.b, args.threshold)>>
    /\ UNCHANGED <<docs, args>>
    /\ UNCHANGED cacheVars
    /\ UNCHANGED runVars
    /\ UNCHANGED raceVars

\* the matching loop of process_pdf on the records of page 1 of document 1
MatchPage ==
    /\ args.fn = "match_page"
    /\ out = <<>>
    /\ out' = <<match_page(1, 1, args.voters, args.search_names, args.threshold,
                           [results |-> <<>>, matches_found |-> 0])>>
    /\ UNCHANGED <<docs, args>>
    /\ UNCHANGED cacheVars
    /\ UNCHANGED runVars
    /\ UNCHANGED raceVars

\* normalize_bn(text)
NormalizeBn ==
    /\ args.fn = "normalize_bn"
    /\ out = <<>>
    /\ out' = <<normalize_bn(args.text)>>
    /\ UNCHANGED <<docs, args>>
    /\ UNCHANGED cacheVars
    /\ UNCHANGED runVars
    /\ UNCHANGED raceVars

\* _find_text_words(search_text, ocr_words)
FindTextWords ==
    /\ args.fn = "_find_text_words"
    /\ out = <<>>
    /\ out' = <<_find_text_words(args.search_text, args.ocr_words)>>
    /\ UNCHANGED <<docs, args>>
    /\ UNCHANGED cacheVars
    /\ UNCHANGED runVars
    /\ UNCHANGED raceVars

\* get_optimal_workers(max_workers) on a machine with cpu_count processors
GetOptimalWorkers ==
    /\ args.fn = "get_optimal_workers"
    /\ out = <<>>
    /\ out' = <<get_optimal_workers(args.max_workers, args.cpu_count)>>
    /\ UNCHANGED <<docs, args>>
    /\ UNCHANGED cacheVars
    /\ UNCHANGED runVars
    /\ UNCHANGED raceVars

\* box-level mode of process_pdf on one page: the text is reconstructed from
\* the words and handed to extract_voter_blocks_with_boxes
ExtractVoterBlocksWithBoxes ==
    /\ args.fn = "extract_voter_blocks_with_boxes"
    /\ out = <<>>
    /\ \E ocr_words \in {extract_ocr_data(args.page)} :
          out' = <<[text |-> reconstruct(ocr_words),
                    voters |-> extract_voter_blocks_with_boxes(reconstruct(ocr_words), ocr_words)]>>
    /\ UNCHANGED <<docs, args>>
    /\ UNCHANGED cacheVars
    /\ UNCHANGED runVars
    /\ UNCHANGED raceVars

\* export_to_csv(results, output_path)
ExportToCsv ==
    /\ args.fn = "export_to_csv"
    /\ out = <<>>
    /\ out' = <<export_to_csv(args.results)>>
    /\ UNCHANGED <<docs, args>>
    /\ UNCHANGED cacheVars
    /\ UNCHANGED runVars
    /\ UNCHANGED raceVars

NextText ==
    \/ ExtractVoterBlocks
    \/ ExtractVoterBlocksWithBoxes
    \/ ExportToCsv
    \/ FuzzyMatch
    \/ MatchPage
    \/ NormalizeBn
    \/ FindTextWords
    \/ GetOptimalWorkers

SpecText == InitText /\ [][NextText]_vars

\* the call has returned
Returns(fn) == args.fn = fn /\ out # <<>>

(***************************************************************************)
(* Properties of the cache (SpecCache).                                    *)
(***************************************************************************)
LastKey == _get_cache_key(last.d, last.names, last.thr)

GetReturned == last.op = "get" /\ last.ret.kind # "raise"

Count(x, l) == Cardinality({i \in DOMAIN l : l[i] = x})
IsPerm(a, b) ==
    /\ Len(a) = Len(b)
    /\ \A i \in DOMAIN a : Count(a[i], a) = Count(a[i], b)

\* a completed set whose entry has not outlived the TTL
Fresh(k) == k \in DOMAIN latest /\ now - latest[k].at <= TTL

\* C4: a get issued after a completed set on the same key, with no later set,
\* clear, expiry or damage on that key, returns the list handed to that set,
\* element by element and in order; after two sets it is the later list.
C4_RoundTrip ==
    (GetReturned /\ LastKey \in DOMAIN latest) => last.ret = Hit(latest[LastKey].R)

\* a get returns the two-element list of the second of two sets on its key
C4_Witness ==
    /\ GetReturned
    /\ LastKey \in DOMAIN latest
    /\ latest[LastKey].n >= 2
    /\ last.ret.kind = "hit"
    /\ Len(last.ret.val) = 2

\* C5: the key depends on the bytes of the document and not on its name: a get
\* for a document whose bytes equal those of the document of a completed,
\* unexpired set with the same names and threshold is a hit returning that
\* set's list, and byte-identical documents share one entry.
C5_KeyedByContent ==
    /\ (GetReturned /\ last.fault = "none") =>
          \A k \in DOMAIN latest :
              (/\ Fresh(k)
               /\ Bytes(latest[k].d) = Bytes(last.d)
               /\ latest[k].names = last.names
               /\ latest[k].thr = last.thr) => last.ret = Hit(latest[k].R)
    /\ \A k1, k2 \in DOMAIN latest :
          (/\ Bytes(latest[k1].d) = Bytes(latest[k2].d)
           /\ latest[k1].names = latest[k2].names
           /\ latest[k1].thr = latest[k2].thr) => k1 = k2

\* a get under one name hits the non-empty list stored under the other name
C5_Witness ==
    /\ GetReturned
    /\ LastKey \in DOMAIN latest
    /\ latest[LastKey].d # last.d
    /\ last.ret.kind = "hit"
    /\ Len(last.ret.val) > 0

\* C6: the key does not depend on the order of the target names: a get with a
\* permutation of the names of a completed, unexpired set (same document,
\* same threshold) returns the list of that set.
C6_NameOrder ==
    (GetReturned /\ last.fault = "none") =>
        \A k \in DOMAIN latest :
            (/\ Fresh(k)
             /\ latest[k].d = last.d
             /\ IsPerm(latest[k].names, last.names)
             /\ latest[k].thr = last.thr) => last.ret = Hit(latest[k].R)

\* a get with the names in the other order hits the stored non-empty list
C6_Witness ==
    /\ GetReturned
    /\ LastKey \in DOMAIN latest
    /\ latest[LastKey].names # last.names
    /\ IsPerm(latest[LastKey].names, last.names)
    /\ last.ret.kind = "hit"
    /\ Len(last.ret.val) > 0

\* the entry the last get found is well formed and of the current version
PreUsable == last.pre.exists /\ ~Unusable(last.pre, last.fault = "read")

\* C7: a get on an entry older than the TTL is a miss and removes the entry;
\* a get never removes a usable entry whose age is at most the TTL; a get on
\* a key with no entry is a miss.
C7_Expiry ==
    GetReturned =>
        /\ (last.pre.exists /\ now - last.pre.mtime > TTL) =>
              (last.ret = Miss /\ LastKey \notin DOMAIN store)
        /\ (PreUsable /\ now - last.pre.mtime <= TTL) =>
              (LastKey \in DOMAIN store
               /\ store[LastKey] = Entry(last.pre.content, last.pre.mtime))
        /\ ~last.pre.exists => last.ret = Miss

\* a get finds a well-formed entry that has outlived the TTL
C7_Witness ==
    /\ GetReturned
    /\ PreUsable
    /\ now - last.pre.mtime > TTL

\* C8: a get on an entry that cannot be read or parsed, or is of another
\* version, is a miss and deletes the entry; a later set then get on that key
\* round-trips.
C8_SelfHealing ==
    GetReturned =>
        /\ Unusable(last.pre, last.fault = "read") =>
              (last.ret = Miss /\ LastKey \notin DOMAIN store)
        /\ (LastKey \in healed /\ LastKey \in DOMAIN latest) =>
              last.ret = Hit(latest[LastKey].R)

\* a get hits the non-empty list set on a key after a get healed that key
C8_Witness ==
    /\ GetReturned
    /\ LastKey \in healed
    /\ LastKey \in DOMAIN latest
    /\ last.ret.kind = "hit"
    /\ Len(last.ret.val) > 0

\* C9: get and set never raise into their caller, whatever the document and
\* the state of the cache directory.
C9_NeverRaises == last.op \in {"get", "set"} => last.ret.kind # "raise"

(***************************************************************************)
(* Properties of a run (SpecRun).                                          *)
(***************************************************************************)
BagOfList(l) == [x \in {l[i] : i \in DOMAIN l} |-> Count(x, l)]

\* the results returned for the documents among 1..n that the coordinator has
\* received and whose worker returned a list, as a multiset
RECURSIVE Received(_)
Received(n) ==
    IF n = 0 THEN EmptyBag
    ELSE Received(n - 1) (+)
         (IF wpc[n] = "collected" /\ fut[n].kind = "result" THEN BagOfList(fut[n].val)
          ELSE EmptyBag)

\* C1: in a parallel run, whatever the order in which the workers complete, the
\* aggregated list is at every moment, as a multiset, the union of the lists
\* returned for the documents received so far whose worker returned a list; at
\* the end of the run it is the union over all documents that succeeded, a
\* failed document adding and removing nothing.
C1_MultisetUnion ==
    mode \in {"parallel", "pool"} => BagOfList(all_results) = Received(Len(docs))

\* a finished parallel run of two documents received against submission order,
\* the first failed and the second returned matches
C1_Witness ==
    /\ mode = "parallel"
    /\ RunDone
    /\ order = <<2, 1>>
    /\ fut[1].kind = "exc"
    /\ fut[2].kind = "result"
    /\ fut[2].val # <<>>
    /\ all_results = fut[2].val

Corrupt(d) == docs[d].kind \in {"invalid", "syntax"}

Valid(d) ==
    /\ docs[d].kind = "ok"
    /\ \A i \in DOMAIN docs[d].pages : docs[d].pages[i] \in {"hit", "blank", "timeout"}

\* C2: when exactly one of the N documents is corrupt and the others are valid,
\* a finished parallel run has files_failed = 1 and files_processed = N - 1, and
\* the results of every valid document are in the returned list.
C2_OneCorrupt ==
    (/\ mode \in {"parallel", "pool"}
     /\ RunDone
     /\ Cardinality({d \in DocIds : Corrupt(d)}) = 1
     /\ \A d \in DocIds : Corrupt(d) \/ Valid(d))
    => /\ stats.files_failed = 1
       /\ stats.files_processed = Len(docs) - 1
       /\ \A d \in DocIds :
            LET emitted == process_pdf(d, box_level, ProcessingStats).results IN
            \A i \in DOMAIN emitted : Count(emitted[i], all_results) >= 1

\* the processing of document d fails: process_pdf counts it as failed
DocFails(d) == process_pdf(d, box_level, ProcessingStats).stats.files_failed = 1

ErrorsNaming(d) == Cardinality({i \in DOMAIN stats.errors : stats.errors[i].doc = d})

\* C3: in sequential and in parallel mode, each document whose processing fails
\* adds exactly one to files_failed and one entry naming it to errors, and every
\* other document is still processed: at the end of the run files_failed is the
\* number of failing documents and errors names each of them once.
C3_FailureRecorded ==
    (mode \in {"sequential", "parallel"} /\ RunDone)
    => /\ stats.files_failed = Cardinality({d \in DocIds : DocFails(d)})
       /\ \A d \in DocIds : ErrorsNaming(d) = (IF DocFails(d) THEN 1 ELSE 0)

\* C11: in every state of a run, sequential or parallel, with or without the
\* cache, files_processed + files_failed is at most the number of documents
\* submitted.
C11_Accounted ==
    mode # "none" => stats.files_processed + stats.files_failed <= Len(docs)

\* a finished sequential run of two documents, one processed and one failed
C11_Witness ==
    /\ mode = "sequential"
    /\ RunDone
    /\ Len(docs) = 2
    /\ stats.files_processed = 1
    /\ stats.files_failed = 1

\* C12: at the end of a run, sequential or parallel, with documents served from
\* the cache or failing, matches_found is the number of SearchResults in the
\* aggregated list.
C12_MatchesCounted ==
    (mode \in {"sequential", "parallel"} /\ RunDone) => stats.matches_found = Len(all_results)

IsOcr(s) == s.step = "ocr"

\* the pages of document d that were handed to the recognition engine, in order
OcrPages(d) == LET s == SelectSeq(trace[d], IsOcr) IN [i \in DOMAIN s |-> s[i].page]

Upto(n) == [i \in 1..n |-> i]

\* the page numbers of a list of results
PagesOf(results) == [i \in DOMAIN results |-> results[i].page]

\* the pages of document d, within the ceiling, whose recognition does o
PagesDoing(d, o) == {k \in DOMAIN Images(d) : Images(d)[k] \in o}

\* the pipeline has run on document d (it was not served from the cache)
Piped(d) == mode # "none" /\ trace[d] # <<>>

\* C13: when recognition of page k of a document times out or hits a transient
\* recognition error, only page k is skipped: page k is still counted in
\* pages_processed and gives no match, the later pages are processed, the matches
\* of the other pages are kept, and the document completes as processed.
C13_PageSkipped ==
    \A d \in DocIds :
        (/\ Piped(d)
         /\ docs[d].kind = "ok"
         /\ PagesDoing(d, {"timeout", "glitch", "oddity"}) # {}
         /\ PagesDoing(d, {"noengine"}) = {})
        => /\ fut[d].kind = "result"
           /\ OcrPages(d) = Upto(Len(Images(d)))
           /\ {fut[d].val[i].page : i \in DOMAIN fut[d].val} = PagesDoing(d, {"hit"})
           /\ process_pdf(d, box_level, ProcessingStats).stats.pages_processed = Len(Images(d))

\* the first page of document d on which the engine is missing (0: none)
EngineMissing(d) ==
    IF docs[d].kind = "ok" /\ PagesDoing(d, {"noengine"}) # {}
    THEN CHOOSE k \in PagesDoing(d, {"noengine"}) : \A j \in PagesDoing(d, {"noengine"}) : k <= j
    ELSE 0

Collected == {d \in DocIds : wpc[d] = "collected"}

\* a step of the run can be taken: the guard of SeqStep, of WorkerEnd, of
\* ParCollect and PoolCollect, or of WorkerBegin holds for some document
CanStep ==
    \E d \in DocIds :
        \/ /\ mode = "sequential" /\ wpc[d] = "queued" /\ \A e \in 1..(d - 1) : wpc[e] = "collected"
           /\ ~intr.raised /\ exit_code = <<>>
        \/ mode \in {"parallel", "pool"} /\ wpc[d] = "running" /\ exit_code = <<>>
        \/ mode \in {"parallel", "pool"} /\ wpc[d] = "done" /\ ~intr.raised /\ exit_code = <<>>
        \/ /\ exit_code = <<>>
           /\ mode \in {"parallel", "pool"}
           /\ wpc[d] = "queued"
           /\ \A e \in 1..(d - 1) : wpc[e] # "queued"
           /\ Cardinality(Running) < num_workers

\* C14: if the recognition engine is unavailable when a page of a document is
\* recognized, the document is aborted: none of its later pages is processed,
\* it is counted in files_failed and not in files_processed, and the run goes on
\* with the remaining documents.
C14_EngineMissing ==
    /\ \A d \in DocIds :
        (Piped(d) /\ EngineMissing(d) # 0)
        => /\ fut[d].kind = "exc"
           /\ \A i \in DOMAIN OcrPages(d) : OcrPages(d)[i] <= EngineMissing(d)
           /\ d \in Collected => ErrorsNaming(d) = 1
    /\ mode # "none"
        => /\ stats.files_failed >= Cardinality({d \in Collected : EngineMissing(d) # 0})
           /\ stats.files_processed <= Cardinality({d \in Collected : EngineMissing(d) = 0})
    /\ (mode # "none" /\ ~RunDone /\ \E d \in DocIds : EngineMissing(d) # 0) => CanStep

\* a finished run in which the engine was missing on page 1 of the first document:
\* its page 2 was not recognized, it is counted failed, the second document is
\* processed and its matches returned
C14_Witness ==
    /\ mode = "sequential"
    /\ RunDone
    /\ Len(docs) = 2
    /\ EngineMissing(1) = 1
    /\ Len(docs[1].pages) = 2
    /\ OcrPages(1) = <<1>>
    /\ stats.files_failed = 1
    /\ stats.files_processed = 1
    /\ all_results # <<>>

\* C15: per document the steps are validate, rasterize, then the page loop; the
\* rasterizer and the engine are not invoked for a document whose validation
\* failed; a validation failure is raised as ValueError and aborts that document
\* only; the rasterizer's page-count and syntax errors are raised as ValueError
\* and its other failures as RuntimeError.
C15_StepOrder ==
    \A d \in DocIds :
        Piped(d)
        => /\ Head(trace[d]) = Step("validate", 0)
           /\ \A i \in 2..Len(trace[d]) : trace[d][i].step # "validate"
           /\ \A i \in 3..Len(trace[d]) : trace[d][i].step = "ocr"
           /\ Len(trace[d]) >= 2 => trace[d][2] = Step("rasterize", 0)
           /\ docs[d].kind = "invalid"
                => /\ trace[d] = <<Step("validate", 0)>>
                   /\ fut[d] = Exception("ValueError")
                   /\ \A e \in DocIds \ {d} :
                        (Piped(e) /\ docs[e].kind = "ok" /\ Valid(e)) => fut[e].kind = "result"
           /\ docs[d].kind \in {"pagecount", "syntax"}
                => (OcrPages(d) = <<>> /\ fut[d] = Exception("ValueError"))
           /\ docs[d].kind = "convert"
                => (OcrPages(d) = <<>> /\ fut[d] = Exception("RuntimeError"))

\* a finished run over a document with a bad page count and one that fails
\* validation
C15_Witness ==
    /\ RunDone
    /\ Len(docs) = 2
    /\ docs[1].kind = "pagecount"
    /\ docs[2].kind = "invalid"
    /\ trace[1] = <<Step("validate", 0), Step("rasterize", 0)>>
    /\ trace[2] = <<Step("validate", 0)>>
    /\ fut[1].exc = "ValueError"

\* C16: a document with more pages than the ceiling is not failed: exactly its
\* first MAX_PDF_PAGES pages are recognized, in order, and every result of the
\* document has a page number between 1 and MAX_PDF_PAGES.
C16_PageCeiling ==
    \A d \in DocIds :
        (/\ Piped(d)
         /\ docs[d].kind = "ok"
         /\ Len(docs[d].pages) > MAX_PDF_PAGES
         /\ \A k \in 1..MAX_PDF_PAGES : docs[d].pages[k] \in {"hit", "blank"})
        => /\ fut[d].kind = "result"
           /\ OcrPages(d) = Upto(MAX_PDF_PAGES)
           /\ \A i \in DOMAIN fut[d].val :
                fut[d].val[i].page >= 1 /\ fut[d].val[i].page <= MAX_PDF_PAGES

\* a document whose page beyond the ceiling holds a match has been received: the
\* match is not in the list
C16_Witness ==
    /\ RunDone
    /\ Len(docs[1].pages) = MAX_PDF_PAGES + 1
    /\ docs[1].pages[MAX_PDF_PAGES + 1] = "hit"
    /\ trace[1] # <<>>
    /\ fut[1].kind = "result"
    /\ fut[1].val # <<>>
    /\ Len(OcrPages(1)) = MAX_PDF_PAGES
    /\ all_results = fut[1].val

NonDecreasing(s) == \A i, j \in DOMAIN s : i <= j => s[i] <= s[j]

\* the lists returned for the documents of ds, one after the other
RECURSIVE Contributions(_)
Contributions(ds) ==
    IF ds = <<>> THEN <<>>
    ELSE (IF fut[Head(ds)].kind = "result" THEN fut[Head(ds)].val ELSE <<>>)
         \o Contributions(Tail(ds))

\* C18: the pages of a document are recognized in ascending order from page 1,
\* so whatever the order in which the documents complete, the results of any one
\* document stand in the aggregated list with non-decreasing page numbers: the
\* list is made of the documents' lists, in the order of reception, each of them
\* ordered by page.
C18_PageOrder ==
    mode # "none"
    => /\ \A d \in DocIds :
            /\ OcrPages(d) = Upto(Len(OcrPages(d)))
            /\ NonDecreasing(PagesOf(fut[d].val))
       /\ all_results = Contributions(order)

\* a finished parallel run received against submission order: the first
\* document gave matches on pages 1 and 2, the second on page 2
C18_Witness ==
    /\ mode = "parallel"
    /\ RunDone
    /\ order = <<2, 1>>
    /\ PagesOf(fut[1].val) = <<1, 2>>
    /\ PagesOf(fut[2].val) = <<2>>
    /\ PagesOf(all_results) = <<2, 1, 2>>

(***************************************************************************)
(* Properties of concurrent calls on one key (SpecRace).                   *)
(***************************************************************************)
\* the result lists that some set was given, or that the entry held at the start
Written == file.orig \cup {procs[p].arg : p \in {q \in DOMAIN procs : procs[q].op = "set"}}

\* C10: under any interleaving of get and set on one key, a get that returns a
\* list returns one that some set was given in full (never a partial or mixed
\* list), and once every worker has finished, the entry file, if there is one,
\* parses to the list given to one of the sets.
C10_NoCorruption ==
    /\ \A p \in DOMAIN procs :
        (procs[p].op = "get" /\ procs[p].pc = "done" /\ procs[p].ret.kind = "hit")
        => procs[p].ret.val \in Written
    /\ ((procs # <<>> /\ \A p \in DOMAIN procs : procs[p].pc = "done") /\ file.path # 0)
        => /\ Parses(file.inodes[file.path])
           /\ json_load(file.inodes[file.path]).results \in Written

(***************************************************************************)
(* Properties of the text functions and of the matching loop (SpecText).   *)
(***************************************************************************)
\* the pairs (record, target name) of a page whose record name clears the threshold
MatchingPairs ==
    {<<i, j>> \in (DOMAIN args.voters) \X (DOMAIN args.search_names) :
        fuzzy_match(args.voters[i].name, args.search_names[j], args.threshold)}

\* the k-th pair in the order of the loops: records first, target names second
PairBefore(p, q) == p[1] < q[1] \/ (p[1] = q[1] /\ p[2] < q[2])
PairRank(p) == Cardinality({q \in MatchingPairs : PairBefore(q, p)}) + 1

\* C17: the matching loop of a page emits exactly one SearchResult per pair
\* (record, target name) whose record name clears the threshold against that
\* name, without de-duplication (a record matched by k names gives k results),
\* and matches_found grows by one per emitted result.
C17_OnePerPair ==
    Returns("match_page")
    => /\ Len(out[1].results) = Cardinality(MatchingPairs)
       /\ out[1].matches_found = Len(out[1].results)
       /\ \A p \in MatchingPairs :
            out[1].results[PairRank(p)] = SearchResult(1, 1, args.voters[p[1]])

\* one record matched by two target names has given two results
C17_Witness ==
    /\ Returns("match_page")
    /\ Len(args.voters) = 1
    /\ Cardinality(MatchingPairs) = 2
    /\ Len(out[1].results) = 2
    /\ out[1].matches_found = 2

LinesOfKind(kinds) == {i \in DOMAIN args.lines : args.lines[i].kind \in kinds}

\* C19: a block that holds one name field and exactly one guardian field, under
\* either label, gives exactly one record whose name and father are the two field
\* values trimmed of surrounding whitespace; a block that holds only a name field
\* or only a guardian field gives no record.
C19_ExtractionComplete ==
    Returns("extract_voter_blocks")
    => LET names == LinesOfKind({"name"})
           guardians == LinesOfKind({"father", "husband"})
       IN /\ (Cardinality(names) = 1 /\ Cardinality(guardians) = 1)
             => out[1] = <<VoterInfo(strip(args.lines[CHOOSE i \in names : TRUE].value),
                                     strip(args.lines[CHOOSE i \in guardians : TRUE].value))>>
          /\ (Cardinality(names) = 0 \/ Cardinality(guardians) = 0) => out[1] = <<>>

\* the strings obtained from the tokens of args.a by permuting them
Permuted ==
    LET n == Len(args.tokens)
        perms == {f \in [1..n -> 1..n] : \A i, j \in 1..n : f[i] = f[j] => i = j}
    IN {join(args.delim, [i \in 1..n |-> args.tokens[f[i]]]) : f \in perms}

\* C20: the matcher is insensitive to the order of the whitespace-delimited
\* tokens of its first argument: matches(a', b, t) = matches(a, b, t) for every
\* a' that permutes the tokens of a.
C20_TokenOrder ==
    (Returns("fuzzy_match") /\ ~args.raises)
    => \A a2 \in Permuted : fuzzy_match(a2, args.b, args.threshold) = out[1]

\* C21: for every threshold from 0 to 100, 0 included, the matcher returns
\* false when either argument is the empty string, and a failure inside the
\* scorer gives false, not an exception.
C21_EmptyNeverMatches ==
    Returns("fuzzy_match")
    => /\ out[1] \in BOOLEAN
       /\ (args.a = <<>> \/ args.b = <<>>) => out[1] = FALSE
       /\ args.raises => out[1] = FALSE

\* the matcher has returned false for an empty first argument at threshold 0
C21_Witness ==
    /\ Returns("fuzzy_match")
    /\ args.a = <<>>
    /\ args.b # <<>>
    /\ args.threshold = 0
    /\ ~args.raises
    /\ out[1] = FALSE

\* C22: normalize_bn(s) holds no character of the strip set, is no longer than
\* s, and normalize_bn of the empty string is the empty string.
C22_Normalized ==
    Returns("normalize_bn")
    => /\ \A i \in DOMAIN out[1] : out[1][i] \notin StripSet
       /\ Len(out[1]) <= Len(args.text)
       /\ args.text = <<>> => out[1] = <<>>

\* a string with a space between two letters has been normalized
C22_Witness ==
    /\ Returns("normalize_bn")
    /\ args.text = <<"a", " ", "a">>
    /\ out[1] = <<"a", "a">>

\* the words of ws that score at least MIN_WORD_SCORE against the token
Candidates(token, ws) ==
    {w \in ws : AtLeast(ratio(normalize_bn(token), normalize_bn(w.text)), MIN_WORD_SCORE)}

\* the best of a non-empty set of words for a token: the highest score, the
\* first in the page among equals
BestOf(token, ws) ==
    CHOOSE w \in ws :
        \A v \in ws \ {w} :
            LET sw == ratio(normalize_bn(token), normalize_bn(w.text))
                sv == ratio(normalize_bn(token), normalize_bn(v.text))
            IN Better(sw, sv) \/ (~Better(sv, sw) /\ w.box < v.box)

\* the attribution the field's tokens are due: each token takes the best word
\* among those not claimed by an earlier token, if one scores enough
RECURSIVE Attribution(_, _, _)
Attribution(tokens, words, claimed) ==
    IF tokens = <<>> THEN claimed
    ELSE LET free == Candidates(Head(tokens), Range(words) \ Range(claimed)) IN
         Attribution(Tail(tokens), words,
                     IF free = {} THEN claimed
                     ELSE Append(claimed, BestOf(Head(tokens), free)))

\* C23: in box-level extraction each token of a field is attributed the word
\* that scores highest among the words not yet claimed within the field,
\* provided the score is at least 70; a token gets no word only when no
\* unclaimed word scores at least 70; no word is claimed twice in one field.
C23_WordAttribution ==
    Returns("_find_text_words")
    => /\ out[1] = Attribution(split(args.search_text), args.ocr_words, <<>>)
       /\ \A i, j \in DOMAIN out[1] : out[1][i] = out[1][j] => i = j

\* the clamp of w into [lo, hi]
Clamp(w, lo, hi) == IF w < lo THEN lo ELSE IF w > hi THEN hi ELSE w

\* C24: with no count given the resolved worker count is max(1, processors - 1);
\* with a count w given, zero and negative values included, it is w clamped
\* into [1, processors]; it is always between 1 and the number of processors.
C24_WorkerCount ==
    Returns("get_optimal_workers")
    => /\ args.max_workers = None
            => out[1] = (IF args.cpu_count - 1 >= 1 THEN args.cpu_count - 1 ELSE 1)
       /\ args.max_workers # None => out[1] = Clamp(args.max_workers[1], 1, args.cpu_count)
       /\ out[1] >= 1
       /\ out[1] <= args.cpu_count

\* a negative count has been resolved to one worker
C24_Witness ==
    /\ Returns("get_optimal_workers")
    /\ args.max_workers = Some(-1)
    /\ args.cpu_count = MaxCpus
    /\ out[1] = 1

\* C25: a get is a hit only for the parameters under which the entry was
\* stored: the hit entry was set with the same threshold and with a
\* permutation of the same target names.
C25_OnlyStoredParameters ==
    (GetReturned /\ last.ret.kind = "hit" /\ LastKey \in DOMAIN latest)
    => /\ latest[LastKey].thr = last.thr
       /\ IsPerm(latest[LastKey].names, last.names)

\* C26: clear() deletes every stored entry and returns the number of entries
\* it deleted, after which get_stats reports zero entries; and a get that
\* returns is a hit only on a key set since the last clear().
C26_Clear ==
    [][/\ last'.op = "clear" =>
            (last'.count = total_entries(store) /\ total_entries(store') = 0)
       /\ (last'.op = "get" /\ last'.ret.kind = "hit") =>
            _get_cache_key(last'.d, last'.names, last'.thr) \in DOMAIN latest']_vars

\* clear() has deleted two entries and reported two
C26_Witness ==
    /\ last.op = "clear"
    /\ last.count = 2
    /\ total_entries(store) = 0

\* the pages of document d that were handed to the engine and whose
\* recognition ended in one of the outcomes of o ("ok", "skip", "abort")
PagesEnding(d, o) ==
    {i \in DOMAIN OcrPages(d) : page_outcome(Images(d)[OcrPages(d)[i]], box_level) \in o}

\* C28: every page skipped for an OCR timeout or a recognition error appends
\* an entry to the run's errors list, as every failed document does: at the
\* end of a run errors holds, for each document, at least one entry per
\* skipped page of it, and one more if the document failed.
C28_PageFailuresListed ==
    (mode \in {"sequential", "parallel"} /\ RunDone)
    => \A d \in DocIds :
           ErrorsNaming(d) >= Cardinality(PagesEnding(d, {"skip"}))
                              + (IF fut[d].kind = "exc" /\ Piped(d) THEN 1 ELSE 0)

\* the lookup the run makes for document d
Lookup(d) == get(store, now, d, RunNames, FUZZY_THRESHOLD_DEFAULT, FALSE)

RECURSIVE Recognized(_)
Recognized(n) ==
    IF n = 0 THEN 0 ELSE Recognized(n - 1) + Cardinality(PagesEnding(n, {"ok"}))

\* C30: at the end of a parallel run pages_processed is the number of pages
\* recognized across all documents, as it is at the end of a sequential run.
C30_PagesMerged ==
    (mode \in {"sequential", "parallel"} /\ RunDone)
    => stats.pages_processed = Recognized(Len(docs))

(***************************************************************************)
(* Properties of an interrupted run (SpecIntr).                            *)
(***************************************************************************)
\* the documents started so far: taken by a worker, or by the sequential loop
Started == {d \in DocIds : wpc[d] # "queued"}

\* C27: after a user interrupt during a run no document is started that had
\* not been started when the interrupt came, and the command ends with exit
\* code 130.
C27_Interrupt ==
    intr.raised
    => /\ Started \subseteq intr.dispatched
       /\ exit_code # <<>> => exit_code = <<EXIT_INTERRUPTED>>

(***************************************************************************)
(* Further properties of a run (SpecRun).                                  *)
(***************************************************************************)
\* C31: every SearchResult of the list obtained for a document, computed or
\* served from the cache, has the name of that document in its file field,
\* also when two byte-identical documents with different names are processed
\* one after the other with the cache on.
C31_FileField ==
    \A d \in DocIds :
        fut[d].kind = "result" => \A i \in DOMAIN fut[d].val : fut[d].val[i].file = d

\* C34: at the end of a run, sequential or parallel, every submitted document
\* has been accounted for exactly once: files_processed + files_failed is the
\* number of documents submitted.
C34_AllAccounted ==
    (mode \in {"sequential", "parallel"} /\ RunDone)
    => stats.files_processed + stats.files_failed = Len(docs)

\* the key under which the run looks document d up and stores its list
RunKey(d) == _get_cache_key(d, RunNames, FUZZY_THRESHOLD_DEFAULT)

(***************************************************************************)
(* Properties of repeated invocations (SpecRerun).                         *)
(***************************************************************************)
\* document d was served from the cache in the current invocation
Served(d) == use_cache /\ fut[d].kind = "result" /\ ~Piped(d)

\* C32: the list served from the cache for a document is the list that
\* processing the document would produce under the options of the current
\* invocation: a list stored with box-level off is not served to an
\* invocation with box-level on, and conversely.
C32_ServedUnderOptions ==
    \A d \in DocIds :
        Served(d) => fut[d].val = process_pdf(d, box_level, ProcessingStats).results

\* C33: only the list of a document whose processing completed is written to
\* the cache: a document whose processing failed (validation, conversion,
\* engine missing, unexpected exception) has no entry, and no invocation is
\* served a list for it from the cache.
C33_OnlySuccessesCached ==
    \A d \in DocIds : DocFails(d) => RunKey(d) \notin DOMAIN store /\ ~Served(d)

(***************************************************************************)
(* Properties of box-level extraction and of the exporter (SpecText).      *)
(***************************************************************************)
\* C35: in box-level mode the text handed to the record extractor is the
\* recognized words joined by single spaces, without a line break, so the
\* page is one block and at most one record is extracted from it however
\* many name/guardian pairs the page holds.
C35_OneRecordPerPage ==
    Returns("extract_voter_blocks_with_boxes")
    => /\ \A i \in DOMAIN out[1].text : out[1].text[i] # "\n"
       /\ Len(out[1].text) = Len(args.page) - (IF args.pairs > 0 THEN args.pairs - 1 ELSE 0)
       /\ Len(split_blocks(out[1].text)) = 1
       /\ Len(out[1].voters) <= 1

\* a page of two name/guardian pairs, which text mode reads as two records,
\* has given one record in box-level mode
C35_Witness ==
    /\ Returns("extract_voter_blocks_with_boxes")
    /\ args.pairs = 2
    /\ Len(extract_voter_blocks(args.page)) = 2
    /\ Len(out[1].voters) = 1

\* the results whose bbox and confidence are carried as None
Degraded ==
    {i \in DOMAIN args.results :
        /\ "bbox" \in DOMAIN args.results[i]
        /\ args.results[i].bbox = <<>>
        /\ args.results[i].confidence = <<>>}

\* C36: CSV export completes without error for every result list the pipeline
\* produces, box-level results without bbox and confidence included, and
\* writes empty spatial and confidence cells for those rows.
C36_ExportAccepts ==
    Returns("export_to_csv")
    => /\ out[1].exc = "none"
       /\ Len(out[1].rows) = Len(args.results) + 1
       /\ \A i \in Degraded : SubSeq(out[1].rows[i + 1], 5, 9) = <<<<>>, <<>>, <<>>, <<>>, <<>>>>

====
